---- MODULE Spec2Model ----
(***************************************************************************)
(* ESC sheet validator: the Sheet Locator (esc_validator/extractor.py),   *)
(* the Spatial Quality Engine (esc_validator/quality_checker.py) and the   *)
(* Line-Style Analyzer (esc_validator/symbol_detector.py, with the label   *)
(* tests of esc_validator/text_detector.py).                               *)
(*                                                                         *)
(* Python str values are TLA+ strings; a character is a string of length   *)
(* one.  Optional[int] is a sequence: None is << >>, the integer v is      *)
(* <<v>>.  A call that may raise yields [exc, val].                        *)
(***************************************************************************)
EXTENDS Integers, Sequences, FiniteSets, TLC

\* ------------------------------------------------------------------ bounds
MaxPages == 2
MaxLabels == 2
MaxElems == 3
GridMax == 2
PctDen == 2
MaxProxElems == 2
MaxFeats == 2
MaxSamples == 7
MaxLines == 2
MaxLocations == 2

\* ------------------------------------------------- Python values and strings
None == << >>
Some(v) == <<v>>
Ret(v) == [exc |-> FALSE, val |-> v]
Raise == [exc |-> TRUE, val |-> None]

Min(a, b) == IF a <= b THEN a ELSE b
Max(a, b) == IF a >= b THEN a ELSE b

Ch(s, i) == SubSeq(s, i, i)

UpperLetters == {"A","B","C","D","E","F","G","H","I","J","K","L","M",
                 "N","O","P","Q","R","S","T","U","V","W","X","Y","Z"}
LowerLetters == {"a","b","c","d","e","f","g","h","i","j","k","l","m",
                 "n","o","p","q","r","s","t","u","v","w","x","y","z"}
Digits == {"0","1","2","3","4","5","6","7","8","9"}

UpperCh(c) ==
  CASE c = "a" -> "A" [] c = "b" -> "B" [] c = "c" -> "C" [] c = "d" -> "D"
    [] c = "e" -> "E" [] c = "f" -> "F" [] c = "g" -> "G" [] c = "h" -> "H"
    [] c = "i" -> "I" [] c = "j" -> "J" [] c = "k" -> "K" [] c = "l" -> "L"
    [] c = "m" -> "M" [] c = "n" -> "N" [] c = "o" -> "O" [] c = "p" -> "P"
    [] c = "q" -> "Q" [] c = "r" -> "R" [] c = "s" -> "S" [] c = "t" -> "T"
    [] c = "u" -> "U" [] c = "v" -> "V" [] c = "w" -> "W" [] c = "x" -> "X"
    [] c = "y" -> "Y" [] c = "z" -> "Z" [] OTHER -> c

\* str.upper()
RECURSIVE Upper(_)
Upper(s) == IF s = "" THEN "" ELSE UpperCh(Ch(s, 1)) \o Upper(Tail(s))

\* the Python operator  t in s  on strings
Contains(s, t) ==
  \E i \in 1..(Len(s) - Len(t) + 1) : SubSeq(s, i, i + Len(t) - 1) = t

\* s[i-1:] starts with t (i is 1-based)
PrefixAt(s, i, t) == i >= 1 /\ i + Len(t) - 1 <= Len(s) /\ SubSeq(s, i, i + Len(t) - 1) = t

\* regular-expression character classes \d, \w, \s
IsDigit(c) == c \in Digits
IsWord(c) == c \in Digits \cup UpperLetters \cup LowerLetters \cup {"_"}
IsSpace(c) == c \in {" ", "\t", "\n", "\r", "\f"}

\* \b at the left of position i, where s[i] is a word character
BoundaryBefore(s, i) == i = 1 \/ ~IsWord(Ch(s, i - 1))
\* \b at the right of position e, where s[e] is a word character
BoundaryAfter(s, e) == e = Len(s) \/ ~IsWord(Ch(s, e + 1))

DigitVal(c) ==
  CASE c = "0" -> 0 [] c = "1" -> 1 [] c = "2" -> 2 [] c = "3" -> 3 [] c = "4" -> 4
    [] c = "5" -> 5 [] c = "6" -> 6 [] c = "7" -> 7 [] c = "8" -> 8 [] c = "9" -> 9

\* int(s) for a string of decimal digits
RECURSIVE ToInt(_)
ToInt(s) ==
  IF s = "" THEN 0
  ELSE 10 * ToInt(SubSeq(s, 1, Len(s) - 1)) + DigitVal(Ch(s, Len(s)))

\* first position >= i that holds no whitespace (Len(s)+1 when there is none): \s*
RECURSIVE SkipSpace(_, _)
SkipSpace(s, i) ==
  IF i <= Len(s) /\ IsSpace(Ch(s, i)) THEN SkipSpace(s, i + 1) ELSE i

\* last position <= e that holds no whitespace (0 when there is none): \s*$
RECURSIVE LastNonSpace(_, _)
LastNonSpace(s, e) ==
  IF e >= 1 /\ IsSpace(Ch(s, e)) THEN LastNonSpace(s, e - 1) ELSE e

\* last position of the run of digits that starts at i
RECURSIVE DigitRunEnd(_, _)
DigitRunEnd(s, i) ==
  IF i + 1 <= Len(s) /\ IsDigit(Ch(s, i + 1)) THEN DigitRunEnd(s, i + 1) ELSE i

\* first position of the run of digits that ends at e
RECURSIVE DigitRunStart(_, _)
DigitRunStart(s, e) ==
  IF e - 1 >= 1 /\ IsDigit(Ch(s, e - 1)) THEN DigitRunStart(s, e - 1) ELSE e

\* text.split('\n')
RECURSIVE SplitFrom(_, _, _)
SplitFrom(s, i, start) ==
  IF i > Len(s) THEN << SubSeq(s, start, Len(s)) >>
  ELSE IF Ch(s, i) = "\n"
       THEN << SubSeq(s, start, i - 1) >> \o SplitFrom(s, i + 1, i + 1)
       ELSE SplitFrom(s, i + 1, start)

SplitLines(s) == SplitFrom(s, 1, 1)

\* --------------------------------------------------------------------------
\* extractor.py: extract_page_number_from_toc_line
\* --------------------------------------------------------------------------

\* Strategy 1, re.search(r'\b(\d{1,3})\b\s*$', line): the group must end at the
\* last non-blank character and start at a word boundary, so it is the whole
\* run of digits that ends the line.
Strategy1(line) ==
  LET e == LastNonSpace(line, Len(line)) IN
  IF e = 0 \/ ~IsDigit(Ch(line, e)) THEN None
  ELSE LET b == DigitRunStart(line, e) IN
       IF e - b + 1 <= 3 /\ BoundaryBefore(line, b)
       THEN Some(ToInt(SubSeq(line, b, e)))
       ELSE None

\* Strategy 2, re.search(r'\b(\d{1,3})-\d{1,3}\b\s*$', line)
Strategy2(line) ==
  LET e == LastNonSpace(line, Len(line)) IN
  IF e = 0 \/ ~IsDigit(Ch(line, e)) THEN None
  ELSE LET b2 == DigitRunStart(line, e)
           m  == b2 - 2
       IN IF e - b2 + 1 <= 3 /\ m >= 1 /\ Ch(line, b2 - 1) = "-" /\ IsDigit(Ch(line, m))
          THEN LET b1 == DigitRunStart(line, m) IN
               IF m - b1 + 1 <= 3 /\ BoundaryBefore(line, b1)
               THEN Some(ToInt(SubSeq(line, b1, m)))
               ELSE None
          ELSE None

\* '(' digits{1,3} ')' starting at position i
ParenAt(line, i) ==
  /\ i + 2 <= Len(line)
  /\ Ch(line, i) = "("
  /\ IsDigit(Ch(line, i + 1))
  /\ LET e == DigitRunEnd(line, i + 1) IN
       e - i <= 3 /\ e + 1 <= Len(line) /\ Ch(line, e + 1) = ")"

\* Strategy 3, re.search(r'\((\d{1,3})\)', line): the leftmost match
Strategy3(line) ==
  LET hits == {i \in 1..Len(line) : ParenAt(line, i)} IN
  IF hits = {} THEN None
  ELSE LET i == CHOOSE j \in hits : \A k \in hits : j <= k IN
       Some(ToInt(SubSeq(line, i + 1, DigitRunEnd(line, i + 1))))

\* position of the digits of (?:PAGE|PG\.?)\s*(\d{1,3}) matched at i, 0 if no match
PageKeywordAt(line, i) ==
  LET up == Upper(line)
      j  == IF PrefixAt(up, i, "PAGE") THEN i + 4
            ELSE IF PrefixAt(up, i, "PG.") THEN i + 3
            ELSE IF PrefixAt(up, i, "PG") THEN i + 2
            ELSE 0
  IN IF j = 0 THEN 0
     ELSE LET k == SkipSpace(line, j) IN
          IF k <= Len(line) /\ IsDigit(Ch(line, k)) THEN k ELSE 0

\* Strategy 4, re.search(r'(?:PAGE|PG\.?)\s*(\d{1,3})', line, re.IGNORECASE):
\* the leftmost match; the group is greedy and takes at most three digits
Strategy4(line) ==
  LET hits == {i \in 1..Len(line) : PageKeywordAt(line, i) # 0} IN
  IF hits = {} THEN None
  ELSE LET i == CHOOSE j \in hits : \A k \in hits : j <= k
           k == PageKeywordAt(line, i)
       IN Some(ToInt(SubSeq(line, k, Min(DigitRunEnd(line, k), k + 2))))

\* Strategy 5, if next_line: re.search(r'^\s*(\d{1,3})\s*$', next_line)
Strategy5(next_line) ==
  IF next_line = "" THEN None
  ELSE LET k == SkipSpace(next_line, 1) IN
       IF k <= Len(next_line) /\ IsDigit(Ch(next_line, k))
       THEN LET e == DigitRunEnd(next_line, k) IN
            IF e - k + 1 <= 3 /\ SkipSpace(next_line, e + 1) = Len(next_line) + 1
            THEN Some(ToInt(SubSeq(next_line, k, e)))
            ELSE None
       ELSE None

\* variant: the parenthesized number tried before the trailing number
extract_page_number_ParensFirst(line, next_line) ==
  IF Strategy3(line) # None THEN Strategy3(line)
  ELSE IF Strategy1(line) # None THEN Strategy1(line)
  ELSE IF Strategy2(line) # None THEN Strategy2(line)
  ELSE IF Strategy4(line) # None THEN Strategy4(line)
  ELSE Strategy5(next_line)

\* the chain of "match = ...; if match: return int(match.group(1))"
extract_page_number_from_toc_line(line, next_line) ==
  IF Strategy1(line) # None THEN Strategy1(line)
  ELSE IF Strategy2(line) # None THEN Strategy2(line)
  ELSE IF Strategy3(line) # None THEN Strategy3(line)
  ELSE IF Strategy4(line) # None THEN Strategy4(line)
  ELSE Strategy5(next_line)


\* --------------------------------------------------------------------------
\* The document as pdfplumber presents it.
\*   readable  pdfplumber.open(pdf_path) succeeds
\*   has_nums  the catalog holds PageLabels with a Nums array
\*   nums      the Nums array as pairs [page_idx, P]; P is the label entry:
\*             kind "absent" (no 'P' key), "undecodable", or "label" with text
\*   pages     what page.extract_text() does on each page: kind "text" (a
\*             string), "none" (returns None) or "raise" (raises)
\* --------------------------------------------------------------------------
TextPage(t) == [kind |-> "text", text |-> t]
NonePage == [kind |-> "none", text |-> ""]
RaisePage == [kind |-> "raise", text |-> ""]

\* "except Exception: return None"
Try(outcome) == IF outcome.exc THEN Ret(None) ELSE outcome

\* --------------------------------------------------------------------------
\* extractor.py: find_esc_in_page_labels
\* --------------------------------------------------------------------------

\* the if/elif chain that sets is_esc_sheet and sheet_priority (0: no ESC sheet)
sheet_priority(label_upper) ==
  IF Contains(label_upper, "EROSION CONTROL") /\ ~Contains(label_upper, "NOTES")
  THEN IF Contains(label_upper, "(1 OF") \/ Contains(label_upper, "(1/") THEN 11 ELSE 10
  ELSE IF Contains(label_upper, "ESC") /\ ~Contains(label_upper, "NOTES") THEN 9
  ELSE IF Contains(label_upper, "SEDIMENT CONTROL") /\ ~Contains(label_upper, "NOTES") THEN 8
  ELSE IF (\E kw \in {"E&SC", "E & SC", "E.S.C"} : Contains(label_upper, kw))
          /\ ~Contains(label_upper, "NOTES") THEN 7
  ELSE 0

\* "if is_esc_sheet: if sheet_priority >= 9: return page_idx"
LabelReturns(priority) == priority > 0 /\ priority >= 9

\* for i in range(0, len(nums), 2): ... ; return None
RECURSIVE LabelLoop(_, _)
LabelLoop(nums, i) ==
  IF i > Len(nums) THEN None
  ELSE LET e == nums[i] IN
       IF e.P.kind # "label" THEN LabelLoop(nums, i + 1)
       ELSE IF LabelReturns(sheet_priority(Upper(e.P.text)))
            THEN Some(e.page_idx)
            ELSE LabelLoop(nums, i + 1)

LabelsBody(pdf) ==
  IF ~pdf.readable THEN Raise
  ELSE IF ~pdf.has_nums THEN Ret(None)
  ELSE Ret(LabelLoop(pdf.nums, 1))

find_esc_in_page_labels(pdf) == Try(LabelsBody(pdf))

\* --------------------------------------------------------------------------
\* extractor.py: find_toc_esc_reference
\* --------------------------------------------------------------------------
max_toc_pages == 10

toc_indicators ==
  {"SHEET INDEX", "DRAWING LIST", "SHEET LIST", "INDEX OF SHEETS", "TABLE OF CONTENTS",
   "PLAN INDEX", "DRAWING INDEX", "SHEET LISTING", "PLAN LISTING",
   "CONTENTS", "INDEX", "TBL OF CONTENTS", "T.O.C", "TOC", "SHEET", "DRAWING"}

esc_keywords ==
  {"ESC", "EROSION", "SEDIMENT CONTROL", "E&SC", "E & SC", "E.S.C", "EC",
   "EROSION CONTROL", "SEDIMENT", "SWPPP", "POLLUTION PREVENTION",
   "ESC-", "EC-", "ESC ", "EC "}

is_toc(text_upper) == \E indicator \in toc_indicators : Contains(text_upper, indicator)

HasEscKeyword(line_upper) == \E keyword \in esc_keywords : Contains(line_upper, keyword)

\* next_line = lines[i + 1] if i + 1 < len(lines) else ""
NextLine(lines, i) == IF i + 1 <= Len(lines) THEN lines[i + 1] ELSE ""

\* "if page_number:" is false for None and for 0
Truthy(page_number) == page_number # None /\ page_number[1] # 0

\* for i, line in enumerate(lines): the 0-based page of the first keyword line
\* that yields a page number
RECURSIVE TocLines(_, _)
TocLines(lines, i) ==
  IF i > Len(lines) THEN None
  ELSE IF HasEscKeyword(Upper(lines[i]))
       THEN LET page_number == extract_page_number_from_toc_line(lines[i], NextLine(lines, i)) IN
            IF Truthy(page_number) THEN Some(page_number[1] - 1)
            ELSE TocLines(lines, i + 1)
       ELSE TocLines(lines, i + 1)

\* text = page.extract_text() or ""
PageText(page) == IF page.kind = "text" THEN page.text ELSE ""

\* for page_num in range(pages_to_check), page k being pdf.pages[k - 1]
RECURSIVE TocPages(_, _, _)
TocPages(pages, pages_to_check, k) ==
  IF k > pages_to_check THEN Ret(None)
  ELSE IF pages[k].kind = "raise" THEN Raise
  ELSE LET text == PageText(pages[k]) IN
       IF is_toc(Upper(text))
       THEN LET toc_page_num == TocLines(SplitLines(text), 1) IN
            IF toc_page_num # None THEN Ret(toc_page_num)
            ELSE TocPages(pages, pages_to_check, k + 1)
       ELSE TocPages(pages, pages_to_check, k + 1)

TocBody(pdf) ==
  IF ~pdf.readable THEN Raise
  ELSE TocPages(pdf.pages, Min(max_toc_pages, Len(pdf.pages)), 1)

\* variant: no try/except around the TOC scan
find_toc_esc_reference_NoExcept(pdf) == TocBody(pdf)

find_toc_esc_reference(pdf) == Try(TocBody(pdf))

\* --------------------------------------------------------------------------
\* extractor.py: find_esc_sheet, the multi-factor scoring scan
\* --------------------------------------------------------------------------
min_score == 8

\* re.search(r'\b(ESC|EC)[-\s]?\d+\b', text_upper)
DigitsThenBoundary(s, k) ==
  k <= Len(s) /\ IsDigit(Ch(s, k)) /\ BoundaryAfter(s, DigitRunEnd(s, k))

SheetNumberAt(s, i) ==
  /\ BoundaryBefore(s, i)
  /\ \E w \in {"ESC", "EC"} :
       /\ PrefixAt(s, i, w)
       /\ LET j == i + Len(w) IN
            \/ DigitsThenBoundary(s, j)
            \/ /\ j <= Len(s)
               /\ (Ch(s, j) = "-" \/ IsSpace(Ch(s, j)))
               /\ DigitsThenBoundary(s, j + 1)

HasSheetNumber(s) == \E i \in 1..Len(s) : SheetNumberAt(s, i)

\* re.search(r'\b(ESC|EROSION|SEDIMENT)\s+CONTROL\s+NOTES\b', text_upper)
ControlNotesAt(s, i) ==
  /\ BoundaryBefore(s, i)
  /\ \E w \in {"ESC", "EROSION", "SEDIMENT"} :
       /\ PrefixAt(s, i, w)
       /\ LET j == i + Len(w) IN
            /\ j <= Len(s) /\ IsSpace(Ch(s, j))
            /\ LET k == SkipSpace(s, j) IN
                 /\ PrefixAt(s, k, "CONTROL")
                 /\ k + 7 <= Len(s) /\ IsSpace(Ch(s, k + 7))
                 /\ LET n == SkipSpace(s, k + 7) IN
                      PrefixAt(s, n, "NOTES") /\ BoundaryAfter(s, n + 4)

HasControlNotes(s) == \E i \in 1..Len(s) : ControlNotesAt(s, i)

\* variant: a rule that fires counts one point whatever its value
Pts_One(cond, n) == IF cond THEN 1 ELSE 0

Pts(cond, n) == IF cond THEN n ELSE 0

\* score = 0; if ...: score += n
page_score(text_upper) ==
    Pts(Contains(text_upper, "ESC") /\ Contains(text_upper, "PLAN"), 5)
  + Pts(Contains(text_upper, "EROSION AND SEDIMENT CONTROL PLAN"), 5)
  + Pts(HasSheetNumber(text_upper), 5)
  + Pts(Contains(text_upper, "ESC") /\ Contains(text_upper, "NOTES"), 5)
  + Pts(HasControlNotes(text_upper), 5)
  + Pts(Contains(text_upper, "EROSION CONTROL")
        /\ ~Contains(text_upper, "EROSION AND SEDIMENT CONTROL"), 3)
  + Pts(Contains(text_upper, "SEDIMENT CONTROL")
        /\ ~Contains(text_upper, "EROSION AND SEDIMENT CONTROL"), 3)
  + Pts(Contains(text_upper, "SILT FENCE"), 2)
  + Pts(Contains(text_upper, "CONSTRUCTION ENTRANCE")
        \/ Contains(text_upper, "STABILIZED CONSTRUCTION ENTRANCE"), 2)
  + Pts(Contains(text_upper, "CONCRETE WASHOUT") \/ Contains(text_upper, "WASHOUT"), 2)
  + Pts(Contains(text_upper, "SWPPP"), 2)
  + Pts(Contains(text_upper, "BMP")
        /\ (Contains(text_upper, "EROSION") \/ Contains(text_upper, "SEDIMENT")), 2)
  + Pts(Contains(text_upper, "EROSION"), 1)
  + Pts(Contains(text_upper, "SEDIMENT"), 1)

\* variant: a page that equals the best score replaces the earlier one
Better_OrEqual(score, best_score) == score >= best_score

\* "if score > best_score:"
Better(score, best_score) == score > best_score

\* variant: the earlier threshold of 10 points
Accept_Ten(best_page, best_score) == IF best_score >= 10 THEN best_page ELSE None

\* "if best_score >= 8: return best_page  else: return None"
Accept(best_page, best_score) == IF best_score >= min_score THEN best_page ELSE None

\* for page_num, page in enumerate(pdf.pages), page k being page_num = k - 1
RECURSIVE ScoreLoop(_, _, _, _)
ScoreLoop(pages, k, best_page, best_score) ==
  IF k > Len(pages) THEN Ret(Accept(best_page, best_score))
  ELSE IF pages[k].kind = "raise" THEN Raise
  ELSE LET score == page_score(Upper(PageText(pages[k]))) IN
       IF Better(score, best_score)
       THEN ScoreLoop(pages, k + 1, Some(k - 1), score)
       ELSE ScoreLoop(pages, k + 1, best_page, best_score)

ScoreBody(pdf) ==
  IF ~pdf.readable THEN Raise
  ELSE ScoreLoop(pdf.pages, 1, None, 0)

scoring_scan(pdf) == Try(ScoreBody(pdf))


\* --------------------------------------------------------------------------
\* quality_checker.py: BoundingBox, TextElement, the overlap functions
\* --------------------------------------------------------------------------
BoundingBox(x, y, width, height) == [x |-> x, y |-> y, width |-> width, height |-> height]

TextElement(text, bbox, confidence) == [text |-> text, bbox |-> bbox, confidence |-> confidence]

\* BoundingBox.area
area(bbox) == bbox.width * bbox.height

\* int(bbox.center_x), int(bbox.center_y): x + width / 2 truncated, coordinates >= 0
center_x_int(bbox) == bbox.x + (bbox.width \div 2)
center_y_int(bbox) == bbox.y + (bbox.height \div 2)

\* the absent intersection, and a present one (Optional[BoundingBox])
NoBox == << >>

\* variant: boxes that only touch count as intersecting
calculate_bbox_intersection_Touching(b1, b2) ==
  LET x_left   == Max(b1.x, b2.x)
      y_top    == Max(b1.y, b2.y)
      x_right  == Min(b1.x + b1.width, b2.x + b2.width)
      y_bottom == Min(b1.y + b1.height, b2.y + b2.height)
  IN IF x_right < x_left \/ y_bottom < y_top THEN NoBox
     ELSE << BoundingBox(x_left, y_top, x_right - x_left, y_bottom - y_top) >>

calculate_bbox_intersection(b1, b2) ==
  LET x_left   == Max(b1.x, b2.x)
      y_top    == Max(b1.y, b2.y)
      x_right  == Min(b1.x + b1.width, b2.x + b2.width)
      y_bottom == Min(b1.y + b1.height, b2.y + b2.height)
  IN IF x_right <= x_left \/ y_bottom <= y_top THEN NoBox
     ELSE << BoundingBox(x_left, y_top, x_right - x_left, y_bottom - y_top) >>

\* A float percentage is the exact quotient num / den, den > 0 (the areas are
\* small integers, so the float comparisons with 20 and 50 agree with it).
Percent(num, den) == [num |-> num, den |-> den]
PctGt(p, k) == p.num > k * p.den
PctEq(p, k) == p.num = k * p.den

\* variant: the larger of the two areas
larger_area(b1, b2) == Max(area(b1), area(b2))

\* "smaller_area = min(area1, area2)"
smaller_area(b1, b2) == Min(area(b1), area(b2))

\* (intersection_area / smaller_area) * 100.0, and 0.0 when smaller_area == 0
calculate_overlap_percentage(b1, b2, intersection) ==
  IF smaller_area(b1, b2) = 0 THEN Percent(0, 1)
  ELSE Percent(100 * area(intersection), smaller_area(b1, b2))

\* variant: the breakpoints taken inclusively
classify_overlap_severity_Inclusive(overlap_percent) ==
  IF overlap_percent.num >= 50 * overlap_percent.den THEN "critical"
  ELSE IF overlap_percent.num >= 20 * overlap_percent.den THEN "warning"
  ELSE "minor"

classify_overlap_severity(overlap_percent) ==
  IF PctGt(overlap_percent, 50) THEN "critical"
  ELSE IF PctGt(overlap_percent, 20) THEN "warning"
  ELSE "minor"

severity_priority(severity) ==
  CASE severity = "critical" -> 3 [] severity = "warning" -> 2 [] severity = "minor" -> 1

OverlapIssue(text1, text2, overlap_area, overlap_percent, severity, location) ==
  [text1 |-> text1, text2 |-> text2, overlap_area |-> overlap_area,
   overlap_percent |-> overlap_percent, severity |-> severity, location |-> location]

\* variant: pairs with identical text are not skipped
SameText_Never(elem1, elem2) == FALSE

\* "if elem1.text == elem2.text: continue"
SameText(elem1, elem2) == elem1.text = elem2.text

\* the body of the inner loop: the findings one pair appends (none or one)
PairIssues(elem1, elem2, min_priority) ==
  IF SameText(elem1, elem2) THEN << >>
  ELSE LET intersection == calculate_bbox_intersection(elem1.bbox, elem2.bbox) IN
       IF intersection = NoBox THEN << >>
       ELSE LET overlap_percent ==
                  calculate_overlap_percentage(elem1.bbox, elem2.bbox, intersection[1])
                severity == classify_overlap_severity(overlap_percent)
            IN IF severity_priority(severity) >= min_priority
               THEN << OverlapIssue(elem1.text, elem2.text, area(intersection[1]),
                                    overlap_percent, severity,
                                    << center_x_int(intersection[1]),
                                       center_y_int(intersection[1]) >>) >>
               ELSE << >>

\* for elem2 in valid_elements[i+1:]
RECURSIVE InnerLoop(_, _, _, _)
InnerLoop(valid, i, j, min_priority) ==
  IF j > Len(valid) THEN << >>
  ELSE PairIssues(valid[i], valid[j], min_priority) \o InnerLoop(valid, i, j + 1, min_priority)

\* for i, elem1 in enumerate(valid_elements)
RECURSIVE OuterLoop(_, _, _)
OuterLoop(valid, i, min_priority) ==
  IF i > Len(valid) THEN << >>
  ELSE InnerLoop(valid, i, i + 1, min_priority) \o OuterLoop(valid, i + 1, min_priority)

\* valid_elements = [elem for elem in text_elements if elem.confidence >= min_confidence]
RECURSIVE ValidElements(_, _)
\* variant: an element at the floor is dropped
ValidElements_Strict(elems, floor) == SelectSeq(elems, LAMBDA e : e.confidence > floor)

ValidElements(elems, floor) ==
  IF elems = << >> THEN << >>
  ELSE (IF Head(elems).confidence >= floor THEN << Head(elems) >> ELSE << >>)
       \o ValidElements(Tail(elems), floor)

\* what the caller's list holds after a call: "valid_elements = [elem for elem
\* in text_elements if ...]" builds a list of its own and the argument is only
\* read; a variant that filters the argument in place
ElementsLeft_Filtered(elems, floor) == ValidElements(elems, floor)

ElementsLeft(elems, floor) == elems

detect_overlapping_labels(elems, floor, min_sev) ==
  OuterLoop(ValidElements(elems, floor), 1, severity_priority(min_sev))


\* --------------------------------------------------------------------------
\* quality_checker.py: proximity of labels to the features they name
\* --------------------------------------------------------------------------

\* PROXIMITY_RULES: the largest distance (pixels) per label type
PROXIMITY_RULES ==
  ("contour" :> 150) @@ ("SCE" :> 200) @@ ("CONC WASH" :> 250)
    @@ ("storm_drain" :> 200) @@ ("street" :> 300)

\* str.replace(c, "") for a character c
RECURSIVE RemoveCh(_, _)
RemoveCh(s, c) ==
  IF s = "" THEN ""
  ELSE (IF Ch(s, 1) = c THEN "" ELSE Ch(s, 1)) \o RemoveCh(Tail(s), c)

\* str.isdigit()
IsDigitStr(s) == Len(s) > 0 /\ \A i \in 1..Len(s) : IsDigit(Ch(s, i))

street_suffixes ==
  << "ST", "STREET", "RD", "ROAD", "DR", "DRIVE", "WAY", "LN", "LANE", "AVE", "AVENUE" >>

\* variant: a label that is not an SCE marker is taken for a street name
classify_label_type_NoSkip(text) ==
  IF Contains(Upper(text), "SCE") THEN Some("SCE") ELSE Some("street")

\* Optional[str]: None, or Some(type)
classify_label_type(text) ==
  LET text_upper == Upper(text) IN
  IF Contains(text_upper, "SCE") \/ Contains(text_upper, "CONSTRUCTION ENTRANCE")
    THEN Some("SCE")
  ELSE IF Contains(text_upper, "CONC") /\ Contains(text_upper, "WASH")
    THEN Some("CONC WASH")
  ELSE IF Contains(text_upper, "WASHOUT") \/ Contains(text_upper, "WASH OUT")
    THEN Some("CONC WASH")
  ELSE IF \E kw \in {"EXIST", "PROP", "CONTOUR"} : Contains(text_upper, kw)
    THEN Some("contour")
  ELSE IF IsDigitStr(RemoveCh(RemoveCh(text_upper, "."), "-")) /\ Len(text_upper) >= 3
    THEN Some("contour")
  ELSE IF \E k \in 1..Len(street_suffixes) : Contains(text_upper, street_suffixes[k])
    THEN Some("street")
  ELSE None

\* A point (x, y) is kept with doubled coordinates <<2x, 2y>>, so that the
\* center of a box of odd width is an integer pair.  A distance d is kept as
\* the integer (2d)^2: np.sqrt is increasing and exact on squares, so every
\* comparison of distances below is the comparison the floats give.
Point(x, y) == << 2 * x, 2 * y >>
label_center(bbox) == << 2 * bbox.x + bbox.width, 2 * bbox.y + bbox.height >>
Distance(sq4) == [sq4 |-> sq4]

\* np.sqrt((point1[0] - point2[0])**2 + (point1[1] - point2[1])**2)
euclidean_distance(point1, point2) ==
  Distance((point1[1] - point2[1]) * (point1[1] - point2[1])
           + (point1[2] - point2[2]) * (point1[2] - point2[2]))

\* min(min_distance, distance)
MinDist(d1, d2) == IF d1.sq4 <= d2.sq4 THEN d1 ELSE d2

\* min_distance = float('inf'); for feature_point in feature_locations: ...
RECURSIVE NearestLoop(_, _)
NearestLoop(center, feature_locations) ==
  IF Len(feature_locations) = 1 THEN euclidean_distance(center, feature_locations[1])
  ELSE MinDist(euclidean_distance(center, Head(feature_locations)),
               NearestLoop(center, Tail(feature_locations)))

find_nearest_feature_distance(label_bbox, feature_locations) ==
  IF feature_locations = << >> THEN None
  ELSE Some(NearestLoop(label_center(label_bbox), feature_locations))

ProximityIssue(label_text, label_type, nearest_distance, expected_max, sev) ==
  [label_text |-> label_text, label_type |-> label_type,
   nearest_distance |-> nearest_distance, expected_max |-> expected_max,
   severity |-> sev]

\* "nearest_distance and nearest_distance > max_distance"
ExceedsThreshold(nearest_distance, max_distance) ==
  /\ nearest_distance # None
  /\ nearest_distance[1].sq4 # 0
  /\ nearest_distance[1].sq4 > 4 * max_distance * max_distance

\* variant: one and a half times the threshold is already an error
ExceedsOneAndAHalf_Inclusive(nearest_distance, max_distance) ==
  nearest_distance[1].sq4 >= 9 * max_distance * max_distance

\* "nearest_distance > max_distance * 1.5"
ExceedsOneAndAHalf(nearest_distance, max_distance) ==
  nearest_distance[1].sq4 > 9 * max_distance * max_distance

\* variant: without features of the type, the features of another type are taken
relevant_features_AnyType(features, label_type) ==
  IF label_type \in DOMAIN features THEN features[label_type]
  ELSE IF DOMAIN features # {} THEN features[CHOOSE k \in DOMAIN features : TRUE]
  ELSE << >>

\* features.get(label_type, [])
relevant_features(features, label_type) ==
  IF label_type \in DOMAIN features THEN features[label_type] ELSE << >>

\* the body of "for elem in valid_elements": the issues one element adds
ElementIssues(elem, features, proximity_rules) ==
  LET label_type == classify_label_type(elem.text) IN
  IF label_type = None \/ label_type[1] \notin DOMAIN proximity_rules THEN << >>
  ELSE LET max_distance == proximity_rules[label_type[1]]
           relevant == relevant_features(features, label_type[1])
       IN IF relevant = << >>
          THEN << ProximityIssue(elem.text, label_type[1], None, max_distance, "warning") >>
          ELSE LET nearest_distance == find_nearest_feature_distance(elem.bbox, relevant) IN
               IF ExceedsThreshold(nearest_distance, max_distance)
               THEN << ProximityIssue(elem.text, label_type[1], nearest_distance, max_distance,
                         IF ExceedsOneAndAHalf(nearest_distance, max_distance)
                         THEN "error" ELSE "warning") >>
               ELSE << >>

RECURSIVE ProximityLoop(_, _, _)
ProximityLoop(valid, features, proximity_rules) ==
  IF valid = << >> THEN << >>
  ELSE ElementIssues(Head(valid), features, proximity_rules)
       \o ProximityLoop(Tail(valid), features, proximity_rules)

validate_label_proximity(elems, features, proximity_rules, floor) ==
  ProximityLoop(ValidElements(elems, floor), features, proximity_rules)

\* --------------------------------------------------------------------------
\* symbol_detector.py: solid and dashed lines
\* --------------------------------------------------------------------------

\* One of the sample points along a line: whether it lies inside the image
\* (valid_mask) and the pixel value the image holds there.
Sample(inside, value) == [inside |-> inside, value |-> value]

\* a float quotient num / den, den > 0, kept exactly
Ratio(num, den) == [num |-> num, den |-> den]

\* "if len(x_points) < 5"
min_valid_points == 5

\* intensities = image[y_points, x_points] for the points the mask keeps
intensities_of(samples) ==
  LET kept == SelectSeq(samples, LAMBDA s : s.inside) IN
  [i \in 1..Len(kept) |-> kept[i].value]

\* intensities.max()
MaxIntensity(intensities) ==
  CHOOSE m \in { intensities[i] : i \in 1..Len(intensities) } :
    \A i \in 1..Len(intensities) : intensities[i] <= m

\* gaps = intensities < 0.5, after the division by 255.0 when the maximum is above 1
gaps_of(intensities) ==
  [i \in 1..Len(intensities) |->
     IF MaxIntensity(intensities) > 1 THEN 2 * intensities[i] < 255
     ELSE 2 * intensities[i] < 1]

\* np.sum(np.abs(np.diff(gaps.astype(int))))
num_transitions_of(gaps) ==
  Cardinality({ i \in 1..(Len(gaps) - 1) : gaps[i] # gaps[i + 1] })

\* np.sum(~gaps) / len(gaps)
coverage_of(gaps) == Ratio(Cardinality({ i \in 1..Len(gaps) : ~gaps[i] }), Len(gaps))

\* variant: a coverage of 0.8 is enough for a solid line
IsSolid_Inclusive(coverage, num_transitions) ==
  10 * coverage.num >= 8 * coverage.den /\ num_transitions < 4

\* "coverage > 0.8 and num_transitions < 4"
IsSolid(coverage, num_transitions) ==
  10 * coverage.num > 8 * coverage.den /\ num_transitions < 4

\* variant: three transitions are enough for a dashed line
IsDashed_ThreeTransitions(coverage, num_transitions) ==
  10 * coverage.num >= 3 * coverage.den /\ num_transitions >= 3

\* "coverage >= 0.3 and num_transitions >= 4"
IsDashed(coverage, num_transitions) ==
  10 * coverage.num >= 3 * coverage.den /\ num_transitions >= 4

\* the pair (line_type, confidence)
classify_line_type(samples) ==
  LET intensities == intensities_of(samples) IN
  IF Len(intensities) < min_valid_points THEN << "unknown", Ratio(0, 1) >>
  ELSE LET gaps == gaps_of(intensities)
           num_transitions == num_transitions_of(gaps)
           coverage == coverage_of(gaps)
       IN IF IsSolid(coverage, num_transitions) THEN << "solid", coverage >>
          ELSE IF IsDashed(coverage, num_transitions)
            THEN << "dashed", Ratio(Min(num_transitions, 10), 10) >>
          ELSE << "unknown", Ratio(0, 1) >>

\* --------------------------------------------------------------------------
\* text_detector.py: contour labels and keyword matching
\* --------------------------------------------------------------------------

LowerCh(c) ==
  CASE c = "A" -> "a" [] c = "B" -> "b" [] c = "C" -> "c" [] c = "D" -> "d"
    [] c = "E" -> "e" [] c = "F" -> "f" [] c = "G" -> "g" [] c = "H" -> "h"
    [] c = "I" -> "i" [] c = "J" -> "j" [] c = "K" -> "k" [] c = "L" -> "l"
    [] c = "M" -> "m" [] c = "N" -> "n" [] c = "O" -> "o" [] c = "P" -> "p"
    [] c = "Q" -> "q" [] c = "R" -> "r" [] c = "S" -> "s" [] c = "T" -> "t"
    [] c = "U" -> "u" [] c = "V" -> "v" [] c = "W" -> "w" [] c = "X" -> "x"
    [] c = "Y" -> "y" [] c = "Z" -> "z" [] OTHER -> c

\* str.lower()
RECURSIVE Lower(_)
Lower(s) == IF s = "" THEN "" ELSE LowerCh(Ch(s, 1)) \o Lower(Tail(s))

\* str.split() with no separator: the runs of characters between whitespace
RECURSIVE WordsFrom(_, _, _)
WordsFrom(s, i, word) ==
  IF i > Len(s) THEN (IF word = "" THEN << >> ELSE << word >>)
  ELSE IF IsSpace(Ch(s, i))
       THEN (IF word = "" THEN << >> ELSE << word >>) \o WordsFrom(s, i + 1, "")
       ELSE WordsFrom(s, i + 1, word \o Ch(s, i))

SplitWords(s) == WordsFrom(s, 1, "")

SetMax(S) == CHOOSE m \in S : \A n \in S : n <= m

\* The row of the longest-common-subsequence table that follows prev and
\* belongs to the character c of a: row[j + 1] is the length for the first j
\* characters of b, either prev's, or one more than prev's before a place
\* at or before j where b holds c.
LcsRow(prev, c, b) ==
  [j1 \in 1..(Len(b) + 1) |->
     SetMax({ prev[j1] } \cup { prev[k] + 1 : k \in { k \in 1..(j1 - 1) : Ch(b, k) = c } })]

RECURSIVE LcsRows(_, _, _, _)
LcsRows(a, b, i, prev) ==
  IF i > Len(a) THEN prev[Len(b) + 1]
  ELSE LcsRows(a, b, i + 1, LcsRow(prev, Ch(a, i), b))

\* length of the longest common subsequence of a and b
LcsLen(a, b) == LcsRows(a, b, 1, [j \in 1..(Len(b) + 1) |-> 0])

\* Levenshtein.ratio(a, b) = (lensum - distance) / lensum, where a substitution
\* costs 2, so that distance = lensum - 2 * LCS; 1.0 for two empty strings
levenshtein_ratio(a, b) ==
  IF Len(a) + Len(b) = 0 THEN Ratio(1, 1)
  ELSE Ratio(2 * LcsLen(a, b), Len(a) + Len(b))

\* "threshold: float = 0.8"
fuzzy_threshold == Ratio(8, 10)

\* variant: only the exact substring counts
fuzzy_match_Exact(text, keyword, threshold) == Contains(Lower(text), Lower(keyword))

fuzzy_match(text, keyword, threshold) ==
  LET text_lower == Lower(text)
      keyword_lower == Lower(keyword)
      words == SplitWords(text_lower)
  IN \/ Contains(text_lower, keyword_lower)
     \/ \E i \in 1..Len(words) :
          LET r == levenshtein_ratio(words[i], keyword_lower) IN
          r.num * threshold.den >= threshold.num * r.den

\* re.match(r'^\d{2,3}\.?\d*$', text): two or three digits, an optional point,
\* any more digits, and the end of the string or a final newline
MatchesElevation(text) ==
  \E k \in 2..3 :
    /\ k <= Len(text)
    /\ IsDigitStr(SubSeq(text, 1, k))
    /\ LET rest == SubSeq(text, k + 1, Len(text))
           body == IF rest # "" /\ Ch(rest, Len(rest)) = "\n"
                   THEN {rest, SubSeq(rest, 1, Len(rest) - 1)} ELSE {rest}
       IN \E r \in body :
            LET d == IF r # "" /\ Ch(r, 1) = "." THEN Tail(r) ELSE r IN
            d = "" \/ IsDigitStr(d)

\* 50 <= float(text) <= 500 for a text that MatchesElevation
ElevationInRange(text) ==
  LET t == RemoveCh(text, "\n")
      dot == IF Contains(t, ".") THEN CHOOSE i \in 1..Len(t) : Ch(t, i) = "." ELSE Len(t) + 1
      whole == ToInt(SubSeq(t, 1, dot - 1))
      frac == SubSeq(t, dot + 1, Len(t))
  IN /\ whole >= 50
     /\ \/ whole < 500
        \/ whole = 500 /\ \A i \in 1..Len(frac) : Ch(frac, i) = "0"

contour_keywords == << "contour", "existing", "proposed", "elev", "elevation", "ex", "prop" >>

is_contour_label(text) ==
  LET text_lower == Lower(text) IN
  \/ \E i \in 1..Len(contour_keywords) : Contains(text_lower, contour_keywords[i])
  \/ MatchesElevation(text) /\ ElevationInRange(text)

existing_keywords == << "existing", "exist", "ex contour", "ex.", "ex " >>

is_existing_contour_label(text) ==
  LET text_lower == Lower(text) IN
  \E i \in 1..Len(existing_keywords) : Contains(text_lower, existing_keywords[i])

proposed_keywords == << "proposed", "prop", "future", "new" >>

is_proposed_contour_label(text) ==
  LET text_lower == Lower(text) IN
  \E i \in 1..Len(proposed_keywords) : Contains(text_lower, proposed_keywords[i])

\* --------------------------------------------------------------------------
\* symbol_detector.py: spatial filtering of contour lines
\* --------------------------------------------------------------------------

Abs(n) == IF n < 0 THEN -n ELSE n

\* np.sqrt(n) for an n that is a perfect square (bisection between lo and hi)
RECURSIVE SqrtBetween(_, _, _)
SqrtBetween(n, lo, hi) ==
  IF lo >= hi THEN lo
  ELSE LET mid == (lo + hi) \div 2 IN
       IF mid * mid >= n THEN SqrtBetween(n, lo, mid) ELSE SqrtBetween(n, mid + 1, hi)

Sqrt(n) == SqrtBetween(n, 0, Min(n, 46340))

\* The distance from the point to the infinite line through line_p1 and
\* line_p2, as the exact quotient numerator / denominator.  The square roots
\* are exact for segments of whole-number length, which is what LineCatalog holds.
point_to_line_distance(point, line_p1, line_p2) ==
  LET px == point[1]
      py == point[2]
      x1 == line_p1[1]
      y1 == line_p1[2]
      x2 == line_p2[1]
      y2 == line_p2[2]
      a == y2 - y1
      b == -(x2 - x1)
      c == x2 * y1 - y2 * x1
      numerator == Abs(a * px + b * py + c)
      denominator == Sqrt(a * a + b * b)
  IN IF denominator = 0
     THEN Ratio(Sqrt((px - x1) * (px - x1) + (py - y1) * (py - y1)), 1)
     ELSE Ratio(numerator, denominator)

\* "dist < min_distance", where min_distance starts as float('inf') (None)
IsNearer(dist, min_distance) ==
  min_distance = None \/ dist.num * min_distance[1].den < min_distance[1].num * dist.den

\* "min_distance <= max_distance"
WithinMax(min_distance, max_distance) ==
  min_distance # None /\ min_distance[1].num <= max_distance * min_distance[1].den

\* the inner loop of find_labels_near_lines over lines[idx..]; line indexes
\* count from 1 here and from 0 in the code, and 0 stands for the code's -1
RECURSIVE ClosestLoop(_, _, _, _, _)
ClosestLoop(point, lines, idx, closest_line_idx, min_distance) ==
  IF idx > Len(lines) THEN [closest_line_idx |-> closest_line_idx, min_distance |-> min_distance]
  ELSE LET line == lines[idx]
           dist == point_to_line_distance(point, << line[1], line[2] >>, << line[3], line[4] >>)
       IN IF IsNearer(dist, min_distance)
          THEN ClosestLoop(point, lines, idx + 1, idx, Some(dist))
          ELSE ClosestLoop(point, lines, idx + 1, closest_line_idx, min_distance)

RECURSIVE find_labels_near_lines(_, _, _)
find_labels_near_lines(text_with_locations, lines, max_distance) ==
  IF text_with_locations = << >> THEN << >>
  ELSE LET label == Head(text_with_locations)
           c == ClosestLoop(<< label.x, label.y >>, lines, 1, 0, None)
       IN (IF WithinMax(c.min_distance, max_distance) /\ c.closest_line_idx >= 1
           THEN << [label |-> label.text, line_idx |-> c.closest_line_idx,
                    distance |-> c.min_distance[1]] >>
           ELSE << >>)
          \o find_labels_near_lines(Tail(text_with_locations), lines, max_distance)

\* np.mean of the confidences of a non-empty list of (line, confidence)
RECURSIVE SumConf(_)
SumConf(lines) ==
  IF lines = << >> THEN Ratio(0, 1)
  ELSE LET h == Head(lines).conf
           t == SumConf(Tail(lines))
       IN Ratio(h.num * t.den + t.num * h.den, h.den * t.den)

MeanConf(lines) == LET s == SumConf(lines) IN Ratio(s.num, s.den * Len(lines))

\* '; '.join(notes)
RECURSIVE JoinNotes(_)
JoinNotes(notes) ==
  IF notes = << >> THEN ""
  ELSE IF Len(notes) = 1 THEN notes[1]
  ELSE notes[1] \o "; " \o JoinNotes(Tail(notes))

\* f"{filter_pct:.0f}" for filter_pct = (1 - count / total) * 100: the nearest
\* whole number, the even one at a tie
FormatPct(count, total) ==
  LET n == 100 * (total - count)
      q == n \div total
      r == n % total
  IN ToString(IF 2 * r > total \/ (2 * r = total /\ q % 2 = 1) THEN q + 1 ELSE q)

\* any(fuzzy_match(text, kw) for kw in [...])
AnyFuzzy(text, kws) == \E i \in 1..Len(kws) : fuzzy_match(text, kws[i], fuzzy_threshold)

\* detect_contour_lines keeps the classified lines in two lists
SolidOf(lines) == SelectSeq(lines, LAMBDA l : l.type = "solid")
DashedOf(lines) == SelectSeq(lines, LAMBDA l : l.type = "dashed")

\* The existing-contour check of verify_contour_conventions_smart; the
\* convention that existing contours are solid has no branch for "none found".
ExistingCheck(has_existing, existing_should_be_dashed, contour_solid, contour_dashed, kind) ==
  IF ~has_existing THEN [correct |-> TRUE, confidence |-> Ratio(0, 1), notes |-> << >>]
  ELSE IF existing_should_be_dashed
  THEN IF contour_dashed # << >>
       THEN [correct |-> TRUE, confidence |-> MeanConf(contour_dashed),
             notes |-> << "Existing: " \o ToString(Len(contour_dashed)) \o " dashed " \o kind \o " (correct)" >>]
       ELSE [correct |-> FALSE, confidence |-> Ratio(0, 1),
             notes |-> << "WARNING: No dashed " \o kind \o " found for existing contours" >>]
  ELSE IF contour_solid # << >>
       THEN [correct |-> TRUE, confidence |-> MeanConf(contour_solid),
             notes |-> << "Existing: " \o ToString(Len(contour_solid)) \o " solid " \o kind \o " (correct)" >>]
       ELSE [correct |-> TRUE, confidence |-> Ratio(0, 1), notes |-> << >>]

ProposedCheck(has_proposed, contour_solid, kind) ==
  IF ~has_proposed THEN [correct |-> TRUE, confidence |-> Ratio(0, 1), notes |-> << >>]
  ELSE IF contour_solid # << >>
       THEN [correct |-> TRUE, confidence |-> MeanConf(contour_solid),
             notes |-> << "Proposed: " \o ToString(Len(contour_solid)) \o " solid " \o kind \o " (correct)" >>]
       ELSE [correct |-> FALSE, confidence |-> Ratio(0, 1),
             notes |-> << "WARNING: No solid " \o kind \o " found for proposed contours" >>]

\* verify_contour_conventions(image, text, existing_should_be_dashed), where
\* lines is what detect_contour_lines finds in the image
verify_contour_conventions(lines, text, existing_should_be_dashed) ==
  LET solid_lines_ == SolidOf(lines)
      dashed_lines_ == DashedOf(lines)
      has_existing == AnyFuzzy(text, << "existing", "exist", "ex" >>)
      has_proposed == AnyFuzzy(text, << "proposed", "prop", "future" >>)
      total_lines == Len(solid_lines_) + Len(dashed_lines_)
  IN IF total_lines = 0
     THEN [existing_correct |-> FALSE, proposed_correct |-> FALSE,
           existing_confidence |-> Ratio(0, 1), proposed_confidence |-> Ratio(0, 1),
           notes |-> "No contour lines detected"]
     ELSE LET e == ExistingCheck(has_existing, existing_should_be_dashed,
                                 solid_lines_, dashed_lines_, "lines")
              p == ProposedCheck(has_proposed, solid_lines_, "lines")
          IN [existing_correct |-> e.correct, proposed_correct |-> p.correct,
              existing_confidence |-> e.confidence, proposed_confidence |-> p.confidence,
              notes |-> JoinNotes(e.notes \o p.notes)]

\* basic_results.update({...}) of the two paths that do not filter
WithStatistics(basic_results, total_lines, enabled, notes) ==
  [existing_correct |-> basic_results.existing_correct,
   proposed_correct |-> basic_results.proposed_correct,
   existing_confidence |-> basic_results.existing_confidence,
   proposed_confidence |-> basic_results.proposed_confidence,
   notes |-> notes,
   total_lines_detected |-> total_lines,
   contour_lines_identified |-> total_lines,
   filter_effectiveness |-> Ratio(0, 1),
   contour_labels_found |-> 0,
   spatial_filtering_enabled |-> enabled]

\* contour_labels: the located texts that is_contour_label accepts
ContourLabels(text_locations) == SelectSeq(text_locations, LAMBDA loc : is_contour_label(loc.text))

\* [entry for i, entry in enumerate(all_lines) if i in contour_line_indices and type_ == ...]
RECURSIVE FilterLines(_, _, _, _)
FilterLines(all_lines, i, indices, type) ==
  IF i > Len(all_lines) THEN << >>
  ELSE (IF i \in indices /\ all_lines[i].type = type THEN << all_lines[i] >> ELSE << >>)
       \o FilterLines(all_lines, i + 1, indices, type)

\* variant: every line within reach of a label is kept, not only the nearest
contour_line_indices_AllWithin(contour_labels, all_lines, max_distance) ==
  { i \in 1..Len(all_lines) :
      \E k \in 1..Len(contour_labels) :
        LET d == point_to_line_distance(<< contour_labels[k].x, contour_labels[k].y >>,
                   << all_lines[i].line[1], all_lines[i].line[2] >>,
                   << all_lines[i].line[3], all_lines[i].line[4] >>)
        IN d.num <= max_distance * d.den }

\* nearby_lines = find_labels_near_lines(contour_labels, [line for line, _, _ in all_lines],
\* max_distance), then contour_line_indices = set(line_idx for _, line_idx, _ in nearby_lines)
contour_line_indices(contour_labels, all_lines, max_distance) ==
  LET nearby_lines == find_labels_near_lines(contour_labels,
                        [i \in 1..Len(all_lines) |-> all_lines[i].line], max_distance)
  IN { nearby_lines[i].line_idx : i \in 1..Len(nearby_lines) }

\* variant: the share of the lines that is kept
FilterEffectiveness_Kept(contour_lines_count, total_lines) ==
  Ratio(contour_lines_count, total_lines)

\* "1 - (contour_lines_count / total_lines) if total_lines > 0 else 0.0"
FilterEffectiveness(contour_lines_count, total_lines) ==
  IF total_lines > 0 THEN Ratio(total_lines - contour_lines_count, total_lines) ELSE Ratio(0, 1)

\* all_lines: the solid lines, then the dashed ones
AllLines(lines) == SolidOf(lines) \o DashedOf(lines)

\* verify_contour_conventions_smart; lines and text_locations are what
\* detect_contour_lines and extract_text_with_locations find in the image
verify_contour_conventions_smart(lines, text_locations, text, max_distance, use_spatial_filtering, existing_should_be_dashed) ==
  LET all_lines == AllLines(lines)
      total_lines == Len(all_lines)
      contour_labels == ContourLabels(text_locations)
      contour_labels_count == Len(contour_labels)
  IN IF total_lines = 0
     THEN [existing_correct |-> FALSE, proposed_correct |-> FALSE,
           existing_confidence |-> Ratio(0, 1), proposed_confidence |-> Ratio(0, 1),
           notes |-> "No lines detected",
           total_lines_detected |-> 0,
           contour_lines_identified |-> 0,
           filter_effectiveness |-> Ratio(0, 1),
           contour_labels_found |-> 0,
           spatial_filtering_enabled |-> use_spatial_filtering]
     ELSE IF ~use_spatial_filtering
     THEN LET basic_results == verify_contour_conventions(lines, text, existing_should_be_dashed) IN
          WithStatistics(basic_results, total_lines, FALSE, basic_results.notes)
     ELSE IF contour_labels_count = 0
     THEN LET basic_results == verify_contour_conventions(lines, text, existing_should_be_dashed) IN
          WithStatistics(basic_results, total_lines, TRUE,
                         basic_results.notes \o "; No contour labels found for filtering")
     ELSE LET contour_line_indices_ == contour_line_indices(contour_labels, all_lines, max_distance)
              contour_lines_count == Cardinality(contour_line_indices_)
              contour_solid == FilterLines(all_lines, 1, contour_line_indices_, "solid")
              contour_dashed == FilterLines(all_lines, 1, contour_line_indices_, "dashed")
              has_existing == \E i \in 1..contour_labels_count :
                                is_existing_contour_label(contour_labels[i].text)
              has_proposed == \E i \in 1..contour_labels_count :
                                is_proposed_contour_label(contour_labels[i].text)
              e == ExistingCheck(has_existing, existing_should_be_dashed,
                                 contour_solid, contour_dashed, "contour lines")
              p == ProposedCheck(has_proposed, contour_solid, "contour lines")
              filtered == "Filtered: " \o ToString(total_lines) \o " total lines -> "
                          \o ToString(contour_lines_count) \o " contour lines ("
                          \o FormatPct(contour_lines_count, total_lines) \o "% reduction)"
          IN [existing_correct |-> e.correct, proposed_correct |-> p.correct,
              existing_confidence |-> e.confidence, proposed_confidence |-> p.confidence,
              notes |-> JoinNotes(e.notes \o p.notes \o << filtered >>),
              total_lines_detected |-> total_lines,
              contour_lines_identified |-> contour_lines_count,
              filter_effectiveness |-> FilterEffectiveness(contour_lines_count, total_lines),
              contour_labels_found |-> contour_labels_count,
              spatial_filtering_enabled |-> TRUE]

\* --------------------------------------------------------------------------
\* State
\* --------------------------------------------------------------------------
VARIABLES
  pdf,            \* the document find_esc_sheet is called on
  pc,             \* position in find_esc_sheet: "phase0", "phase1", "phase2", "done"
  metadata_page,  \* find_esc_sheet: metadata_page
  toc_page,       \* find_esc_sheet: toc_page
  result,         \* the value find_esc_sheet returned
  raised,         \* an exception left find_esc_sheet
  calls,          \* how many times each strategy was started
  text_elements,  \* detect_overlapping_labels: text_elements
  min_confidence, \* detect_overlapping_labels: min_confidence
  min_severity,   \* detect_overlapping_labels: min_severity
  overlaps,       \* the list detect_overlapping_labels returned
  ovpc,           \* "call" before detect_overlapping_labels ran, "returned" after
  bbox1,          \* the two boxes of one pair
  bbox2,
  intersection,   \* calculate_bbox_intersection(bbox1, bbox2)
  overlap_percent,\* calculate_overlap_percentage(bbox1, bbox2, intersection), None before
  bbpc,           \* "intersect", "percent", "done"
  percent_in,     \* the argument of classify_overlap_severity
  severity,       \* its result, "" before the call
  features,       \* validate_label_proximity: features
  proximity_rules,\* validate_label_proximity: proximity_rules
  proximity_issues,\* the list validate_label_proximity returned
  pxpc,           \* "call" before validate_label_proximity ran, "returned" after
  samples,        \* the sample points of the line detect_contour_lines classifies
  line_type,      \* classify_line_type: line_type
  line_confidence,\* classify_line_type: confidence
  solid_lines,    \* detect_contour_lines: solid_lines
  dashed_lines,   \* detect_contour_lines: dashed_lines
  lnpc,           \* "classify", "collect", "done"
  image_lines,    \* the classified lines detect_contour_lines finds in the image
  image_locations,\* what extract_text_with_locations finds in the image
  image_text,     \* the text of the image, the argument text
  max_dist,       \* verify_contour_conventions_smart: max_distance
  spatial_filtering, \* verify_contour_conventions_smart: use_spatial_filtering
  dashed_convention, \* verify_contour_conventions_smart: existing_should_be_dashed
  line_verification, \* validate_esc_sheet: line_verification, None before the call
  kept_indices,   \* contour_line_indices when the filter ran (places in all_lines, from 1), else None
  errors,         \* validate_esc_sheet: errors
  success,        \* validate_esc_sheet: success, None while it is not assigned
  ccpc,           \* "call", "returned" (a direct call), "validated" (validate_esc_sheet)
  ocr_cache,      \* ocr_engine: the module global _ocr_cache
  cache_calls,    \* the calls of the cache functions so far, each with what it returned and left
  vpc,            \* position in validate_esc_sheet, "idle" when it is not running
  pdf_exists,     \* validate_esc_sheet: Path(pdf_path).exists()
  exit_path,      \* how validate_esc_sheet left: "none" while it runs
  populated       \* some step of this run put results into the cache

locVars == <<pdf, pc, metadata_page, toc_page, result, raised, calls>>
ovVars == <<text_elements, min_confidence, min_severity, overlaps, ovpc>>
bbVars == <<bbox1, bbox2, intersection, overlap_percent, bbpc>>
sevVars == <<percent_in, severity>>
pxVars == <<features, proximity_rules, proximity_issues, pxpc>>
lnVars == <<samples, line_type, line_confidence, solid_lines, dashed_lines, lnpc>>
ccVars == <<image_lines, image_locations, image_text, max_dist, spatial_filtering,
           dashed_convention, line_verification, kept_indices, errors, success, ccpc>>
ocVars == <<ocr_cache, cache_calls, vpc, pdf_exists, exit_path, populated>>
tailVars == <<ocVars>>
laterVars == <<ccVars, tailVars>>
moreVars == <<pxVars, lnVars, laterVars>>

vars == <<locVars, ovVars, bbVars, sevVars, moreVars>>

\* --------------------------------------------------------------------------
\* Documents
\* --------------------------------------------------------------------------
PageCatalog ==
  { TextPage("SHEET INDEX\nEROSION CONTROL PLAN ... 26"),
    TextPage("EROSION AND SEDIMENT CONTROL PLAN"),
    TextPage("Erosion Control Notes"),
    TextPage("SILT FENCE AND WASHOUT\nEROSION CONTROL"),
    NonePage,
    RaisePage }

LabelCatalog ==
  { [kind |-> "label", text |-> "[14] 19 EROSION CONTROL (1 OF 2)"],
    [kind |-> "label", text |-> "[15] 20 EROSION CONTROL (2 OF 2)"],
    [kind |-> "label", text |-> "Esc Details"],
    [kind |-> "label", text |-> "ESC NOTES"],
    [kind |-> "label", text |-> "SEDIMENT CONTROL PLAN"],
    [kind |-> "absent", text |-> ""] }

\* the entries of a Nums array, in increasing page index as a PDF number tree holds them
RECURSIVE MkNums(_, _)
MkNums(S, f) ==
  IF S = {} THEN << >>
  ELSE LET m == CHOOSE x \in S : \A y \in S : x <= y IN
       << [page_idx |-> m, P |-> f[m]] >> \o MkNums(S \ {m}, f)

Unreadable == [readable |-> FALSE, has_nums |-> FALSE, nums |-> << >>, pages |-> << >>]

MkDoc(nums, pages) ==
  [readable |-> TRUE, has_nums |-> nums # << >>, nums |-> nums, pages |-> pages]

\* d is the unreadable document, or a document of 1..MaxPages pages drawn from
\* PageCatalog with at most MaxLabels page labels drawn from LabelCatalog
IsDoc(d) ==
  \/ d = Unreadable
  \/ \E n \in 1..MaxPages :
       \E pages \in [1..n -> PageCatalog] :
         \E S \in { T \in SUBSET (0..(n - 1)) : Cardinality(T) <= MaxLabels } :
           \E f \in [S -> LabelCatalog] :
             d = MkDoc(MkNums(S, f), pages)

\* lines of a table of contents, and what may follow such a line
TocLineCatalog ==
  { "EROSION CONTROL PLAN ... 26",
    "ESC NOTES (3) PAGE 2 7",
    "EROSION CONTROL 26-28",
    "ESC DETAILS (14) PG. 9 -",
    "SWPPP Page 12 of",
    "EROSION CONTROL",
    "SEDIMENT CONTROL 1234",
    "ESC-1",
    "SEDIMENT BASIN 0",
    "COVER SHEET 1",
    "SPEC SHEET (2)" }

NextLineCatalog == { "", "  14", "14 15", "ESC-2 5", "PAGE 3" }

\* d is a document without page labels whose only page is a sheet index with
\* one entry line and the line after it
IsTocDoc(d) ==
  \E line \in TocLineCatalog :
    \E next_line \in NextLineCatalog :
      d = MkDoc(<< >>, << TextPage("SHEET INDEX\n" \o line \o "\n" \o next_line) >>)

\* --------------------------------------------------------------------------
\* extractor.py: find_esc_sheet
\* --------------------------------------------------------------------------
StartLocator ==
  /\ pc = "phase0"
  /\ metadata_page = None
  /\ toc_page = None
  /\ result = None
  /\ raised = FALSE
  /\ calls = [metadata |-> 0, toc |-> 0, scoring |-> 0]

\* variant: the truth value of the page, "if metadata_page:", which is false for page 0
IsNotNone_Truthy(page) == page # None /\ page[1] # 0

\* "if metadata_page is not None:", "if toc_page is not None:"
IsNotNone(page) == page # None

\* an exception that no handler of find_esc_sheet catches leaves the function
Escapes ==
  /\ raised' = TRUE
  /\ pc' = "done"
  /\ UNCHANGED <<metadata_page, toc_page, result>>

\* PHASE 0: metadata_page = find_esc_in_page_labels(pdf_path)
Phase0 ==
  /\ pc = "phase0"
  /\ calls' = [calls EXCEPT !.metadata = @ + 1]
  /\ LET r == find_esc_in_page_labels(pdf) IN
       IF r.exc THEN Escapes
       ELSE /\ metadata_page' = r.val
            /\ IF IsNotNone(r.val)
               THEN result' = r.val /\ pc' = "done"
               ELSE result' = result /\ pc' = "phase1"
            /\ UNCHANGED <<toc_page, raised>>
  /\ UNCHANGED <<pdf, ovVars, bbVars, sevVars, moreVars>>

\* PHASE 1: toc_page = find_toc_esc_reference(pdf_path)
Phase1 ==
  /\ pc = "phase1"
  /\ calls' = [calls EXCEPT !.toc = @ + 1]
  /\ LET r == find_toc_esc_reference(pdf) IN
       IF r.exc THEN Escapes
       ELSE /\ toc_page' = r.val
            /\ IF IsNotNone(r.val)
               THEN result' = r.val /\ pc' = "done"
               ELSE result' = result /\ pc' = "phase2"
            /\ UNCHANGED <<metadata_page, raised>>
  /\ UNCHANGED <<pdf, ovVars, bbVars, sevVars, moreVars>>

\* PHASE 2: the scoring scan inside try/except, which returns on every path
Phase2 ==
  /\ pc = "phase2"
  /\ calls' = [calls EXCEPT !.scoring = @ + 1]
  /\ LET r == scoring_scan(pdf) IN
       IF r.exc THEN Escapes
       ELSE /\ result' = r.val
            /\ pc' = "done"
            /\ UNCHANGED <<metadata_page, toc_page, raised>>
  /\ UNCHANGED <<pdf, ovVars, bbVars, sevVars, moreVars>>

NextLocator == Phase0 \/ Phase1 \/ Phase2

\* the locator is not in use
IdleLocator ==
  /\ pdf = Unreadable
  /\ pc = "idle"
  /\ metadata_page = None
  /\ toc_page = None
  /\ result = None
  /\ raised = FALSE
  /\ calls = [metadata |-> 0, toc |-> 0, scoring |-> 0]

\* --------------------------------------------------------------------------
\* quality_checker.py: a call of detect_overlapping_labels
\* --------------------------------------------------------------------------
default_min_confidence == 40

ElemCatalog ==
  { TextElement("EX. 635.0",   BoundingBox(100, 100, 50, 20), 85),
    TextElement("PROP. 636.0", BoundingBox(110, 105, 50, 20), 85),
    TextElement("EX. 635.0",   BoundingBox(105, 100, 50, 20), 82),
    TextElement("SCE",         BoundingBox(140, 100, 50, 20), 40),
    TextElement("LOW",         BoundingBox(100, 100, 50, 20), 39),
    TextElement("N",           BoundingBox(150, 100, 10, 10), 85),
    TextElement("|",           BoundingBox(120, 110, 0, 10),  85) }

Severities == {"minor", "warning", "critical"}

StartOverlap ==
  /\ \E n \in 0..MaxElems : text_elements \in [1..n -> ElemCatalog]
  /\ min_confidence \in {default_min_confidence, 85}
  /\ min_severity \in Severities
  /\ overlaps = << >>
  /\ ovpc = "call"

IdleOverlap ==
  /\ text_elements = << >>
  /\ min_confidence = default_min_confidence
  /\ min_severity = "minor"
  /\ overlaps = << >>
  /\ ovpc = "idle"

\* overlaps = detect_overlapping_labels(text_elements, min_confidence, min_severity)
DetectOverlaps ==
  /\ ovpc = "call"
  /\ overlaps' = detect_overlapping_labels(text_elements, min_confidence, min_severity)
  /\ text_elements' = ElementsLeft(text_elements, min_confidence)
  /\ ovpc' = "returned"
  /\ UNCHANGED <<min_confidence, min_severity, locVars, bbVars, sevVars, moreVars>>

\* --------------------------------------------------------------------------
\* quality_checker.py: one pair of boxes, as lines 284-287 treat it
\* --------------------------------------------------------------------------
Boxes ==
  { BoundingBox(x, y, w, h) : x \in 0..GridMax, y \in 0..GridMax,
                              w \in 0..GridMax, h \in 0..GridMax }

StartBBox ==
  /\ bbox1 \in Boxes
  /\ bbox2 \in Boxes
  /\ intersection = NoBox
  /\ overlap_percent = None
  /\ bbpc = "intersect"

IdleBBox ==
  /\ bbox1 = BoundingBox(0, 0, 0, 0)
  /\ bbox2 = BoundingBox(0, 0, 0, 0)
  /\ intersection = NoBox
  /\ overlap_percent = None
  /\ bbpc = "idle"

\* intersection = calculate_bbox_intersection(elem1.bbox, elem2.bbox); if intersection:
Intersect ==
  /\ bbpc = "intersect"
  /\ intersection' = calculate_bbox_intersection(bbox1, bbox2)
  /\ bbpc' = IF intersection' # NoBox THEN "percent" ELSE "done"
  /\ UNCHANGED <<bbox1, bbox2, overlap_percent, locVars, ovVars, sevVars, moreVars>>

\* overlap_percent = calculate_overlap_percentage(elem1.bbox, elem2.bbox, intersection)
Percentage ==
  /\ bbpc = "percent"
  /\ overlap_percent' = Some(calculate_overlap_percentage(bbox1, bbox2, intersection[1]))
  /\ bbpc' = "done"
  /\ UNCHANGED <<bbox1, bbox2, intersection, locVars, ovVars, sevVars, moreVars>>

\* --------------------------------------------------------------------------
\* quality_checker.py: a call of classify_overlap_severity
\* --------------------------------------------------------------------------
Percents == { Percent(n, PctDen) : n \in 0..(100 * PctDen) }

StartSeverity == percent_in \in Percents /\ severity = ""

IdleSeverity == percent_in = Percent(0, 1) /\ severity = "idle"

Classify ==
  /\ severity = ""
  /\ severity' = classify_overlap_severity(percent_in)
  /\ UNCHANGED <<percent_in, locVars, ovVars, bbVars, moreVars>>

\* --------------------------------------------------------------------------
\* quality_checker.py: a call of validate_label_proximity
\* --------------------------------------------------------------------------
\* labels at the box of the tests (center (125, 110)), and a street name
ProxElemCatalog ==
  { TextElement("SCE #1",      BoundingBox(100, 100, 50, 20), 85),
    TextElement("SCE #2",      BoundingBox(100, 100, 50, 20), 39),
    TextElement("SCE #3",      BoundingBox(100, 100, 50, 20), 40),
    TextElement("RANDOM TEXT", BoundingBox(100, 100, 50, 20), 85),
    TextElement("MAIN ST",     BoundingBox(110, 105, 51, 21), 85) }

\* feature points at the distances 200, 201, 300 and a little over 300 of (125, 110)
FeaturePoints == { Point(245, 270), Point(326, 110), Point(305, 350), Point(305, 351) }

FeatureLists == UNION { [1..n -> FeaturePoints] : n \in 0..MaxFeats }

\* Dict[str, List[Tuple[float, float]]]: no key, the key "SCE", another key
FeatureMaps ==
  { << >> } \cup { "SCE" :> l : l \in FeatureLists }
            \cup { "CONC WASH" :> << Point(200, 200) >> }

\* the default table, and a table with one type only
RuleTables == { PROXIMITY_RULES, "SCE" :> 201 }

StartProximity ==
  /\ \E n \in 0..MaxProxElems : text_elements \in [1..n -> ProxElemCatalog]
  /\ min_confidence = default_min_confidence
  /\ min_severity = "minor"
  /\ overlaps = << >>
  /\ ovpc = "call"
  /\ features \in FeatureMaps
  /\ proximity_rules \in RuleTables
  /\ proximity_issues = << >>
  /\ pxpc = "call"

IdleProximity ==
  /\ features = << >>
  /\ proximity_rules = PROXIMITY_RULES
  /\ proximity_issues = << >>
  /\ pxpc = "idle"


\* proximity_issues = validate_label_proximity(text_elements, features,
\* proximity_rules, min_confidence), called after detect_overlapping_labels
\* on the same elements as check_quality does
ValidateProximity ==
  /\ pxpc = "call"
  /\ ovpc = "returned"
  /\ proximity_issues' =
       validate_label_proximity(text_elements, features, proximity_rules, min_confidence)
  /\ text_elements' = ElementsLeft(text_elements, min_confidence)
  /\ pxpc' = "returned"
  /\ UNCHANGED <<features, proximity_rules, min_confidence, min_severity, overlaps, ovpc,
                 locVars, bbVars, sevVars, lnVars, laterVars>>

\* --------------------------------------------------------------------------
\* symbol_detector.py: detect_contour_lines on one detected line
\* --------------------------------------------------------------------------
\* the two pixel values of an image: binary, edge image, grey levels
PixelPairs == { <<0, 1>>, <<0, 255>>, <<127, 128>> }

SamplesOf(pair) == { Sample(FALSE, 0), Sample(TRUE, pair[1]), Sample(TRUE, pair[2]) }

StartLines ==
  /\ \E pair \in PixelPairs : \E n \in 0..MaxSamples : samples \in [1..n -> SamplesOf(pair)]
  /\ line_type = ""
  /\ line_confidence = Ratio(0, 1)
  /\ solid_lines = << >>
  /\ dashed_lines = << >>
  /\ lnpc = "classify"

IdleLines ==
  /\ samples = << >>
  /\ line_type = ""
  /\ line_confidence = Ratio(0, 1)
  /\ solid_lines = << >>
  /\ dashed_lines = << >>
  /\ lnpc = "idle"

\* line_type, confidence = classify_line_type(line, edges)
ClassifyLine ==
  /\ lnpc = "classify"
  /\ line_type' = classify_line_type(samples)[1]
  /\ line_confidence' = classify_line_type(samples)[2]
  /\ lnpc' = "collect"
  /\ UNCHANGED <<samples, solid_lines, dashed_lines, locVars, ovVars, bbVars, sevVars, pxVars, laterVars>>

\* the line goes to solid_lines or to dashed_lines; an "unknown" line is skipped
CollectLine ==
  /\ lnpc = "collect"
  /\ solid_lines' = IF line_type = "solid"
                    THEN Append(solid_lines, << samples, line_confidence >>) ELSE solid_lines
  /\ dashed_lines' = IF line_type = "dashed"
                     THEN Append(dashed_lines, << samples, line_confidence >>) ELSE dashed_lines
  /\ lnpc' = "done"
  /\ UNCHANGED <<samples, line_type, line_confidence, locVars, ovVars, bbVars, sevVars, pxVars, laterVars>>

\* --------------------------------------------------------------------------
\* symbol_detector.py, validator.py: the contour convention check of one image
\* --------------------------------------------------------------------------
Line(x1, y1, x2, y2, type, conf) == [line |-> << x1, y1, x2, y2 >>, conf |-> conf, type |-> type]

\* Classified lines of whole-number length: two horizontal ones 200 pixels
\* apart and a slanted one (300, 400, 500) through the origin.
LineCatalog ==
  { Line(0, 0, 400, 0, "solid", Ratio(9, 10)),
    Line(0, 200, 400, 200, "dashed", Ratio(1, 2)),
    Line(0, 0, 300, 400, "solid", Ratio(1, 1)) }

Location(text, x, y) == [text |-> text, x |-> x, y |-> y]

\* Located texts.  Distances to the three lines of LineCatalog, in order:
\* (200, 150): 150, 50, 70;  (200, 50): 50, 150, 130;  (200, 100): 100, 100, 100
LocationCatalog ==
  { Location("EX. 250", 200, 150),
    Location("PROP 251", 200, 50),
    Location("250", 200, 100),
    Location("MAIN ST", 200, 50) }

\* Page texts: one without any contour word, one with a word that matches
\* "exist" by similarity only and the word "future".
TextCatalog == { "scale", "eist future" }

MaxDistances == { 100, 150 }

StartContours ==
  /\ \E n \in 0..MaxLines : image_lines \in [1..n -> LineCatalog]
  /\ \E n \in 0..MaxLocations : image_locations \in [1..n -> LocationCatalog]
  /\ image_text \in TextCatalog
  /\ max_dist = 0
  /\ spatial_filtering = FALSE
  /\ dashed_convention = FALSE
  /\ line_verification = None
  /\ kept_indices = None
  /\ errors = << >>
  /\ success = None
  /\ ccpc = "call"

IdleContours ==
  /\ image_lines = << >>
  /\ image_locations = << >>
  /\ image_text = ""
  /\ max_dist = 0
  /\ spatial_filtering = FALSE
  /\ dashed_convention = FALSE
  /\ line_verification = None
  /\ kept_indices = None
  /\ errors = << >>
  /\ success = None
  /\ ccpc = "idle"

\* the results an OCR run can put into the cache: lists of recognised texts
\* (confidence and box of an OCRResult play no part in the cache)
MaxResults == 2

ResultTexts == { "FIRST", "SECOND" }

ResultLists == UNION { [1..n -> ResultTexts] : n \in 0..MaxResults }

\* the values of _ocr_cache: None, or a list (which may be empty)
CacheValues == { None } \cup { Some(r) : r \in ResultLists }

\* set_ocr_cache: "_ocr_cache = results"; a variant that drops an empty list
set_ocr_cache_Falsy(cache, results) == IF results = << >> THEN None ELSE Some(results)

set_ocr_cache(cache, results) == Some(results)

\* get_ocr_cache: "return _ocr_cache"
get_ocr_cache(cache) == cache

\* clear_ocr_cache: "if _ocr_cache is not None: _ocr_cache = None"; a variant
\* that leaves the cache as it is
clear_ocr_cache_Keep(cache) == cache

clear_ocr_cache(cache) == IF cache # None THEN None ELSE cache

IdleCache ==
  /\ ocr_cache = None
  /\ cache_calls = << >>
  /\ vpc = "idle"
  /\ pdf_exists = FALSE
  /\ exit_path = "none"
  /\ populated = FALSE

IdleTail == IdleCache

IdleLater == IdleContours /\ IdleTail

IdleMore == IdleProximity /\ IdleLines /\ IdleLater

\* contour_line_indices of a call that reached the filter: filtering was asked
\* for, and lines and contour labels were found
KeptBy(lv, max_distance) ==
  IF lv.spatial_filtering_enabled /\ lv.contour_labels_found > 0
  THEN Some(contour_line_indices(ContourLabels(image_locations), AllLines(image_lines),
                                 max_distance))
  ELSE None

\* a call of verify_contour_conventions_smart with arguments of the caller's choice
VerifyContoursSmart ==
  /\ ccpc = "call"
  /\ \E max_distance \in MaxDistances, use_spatial_filtering \in BOOLEAN,
        existing_should_be_dashed \in BOOLEAN :
       /\ max_dist' = max_distance
       /\ spatial_filtering' = use_spatial_filtering
       /\ dashed_convention' = existing_should_be_dashed
       /\ line_verification' =
            Some(verify_contour_conventions_smart(image_lines, image_locations, image_text,
                   max_distance, use_spatial_filtering, existing_should_be_dashed))
       /\ kept_indices' = KeptBy(line_verification'[1], max_distance)
  /\ ccpc' = "returned"
  /\ UNCHANGED <<image_lines, image_locations, image_text, errors, success,
                 locVars, ovVars, bbVars, sevVars, pxVars, lnVars, tailVars>>

\* "WARNING: ... contour line type may be incorrect" for each flag that is false
ConventionWarnings(lv) ==
  (IF ~lv.existing_correct
   THEN << "WARNING: Existing contour line type may be incorrect" >> ELSE << >>)
  \o (IF ~lv.proposed_correct
      THEN << "WARNING: Proposed contour line type may be incorrect" >> ELSE << >>)

\* Step 5 of validate_esc_sheet, up to "success = True": the call with
\* max_distance=150, use_spatial_filtering=True and the default convention
LineDetectionStep ==
  /\ ccpc = "call"
  /\ LET lv == verify_contour_conventions_smart(image_lines, image_locations, image_text,
                 150, TRUE, TRUE)
     IN /\ line_verification' = Some(lv)
        /\ kept_indices' = KeptBy(lv, 150)
        /\ errors' = errors \o ConventionWarnings(lv)
  /\ max_dist' = 150
  /\ spatial_filtering' = TRUE
  /\ dashed_convention' = TRUE
  /\ success' = Some(TRUE)
  /\ ccpc' = "validated"
  /\ UNCHANGED <<image_lines, image_locations, image_text,
                 locVars, ovVars, bbVars, sevVars, pxVars, lnVars, tailVars>>

\* Step 5 when the text extraction or the line detection raises: the except
\* branch records the error (its message is left out) and the run goes on
LineDetectionFails ==
  /\ ccpc = "call"
  /\ errors' = Append(errors, "Line verification error")
  /\ success' = Some(TRUE)
  /\ ccpc' = "validated"
  /\ UNCHANGED <<image_lines, image_locations, image_text, max_dist, spatial_filtering,
                 dashed_convention, line_verification, kept_indices,
                 locVars, ovVars, bbVars, sevVars, pxVars, lnVars, tailVars>>

\* --------------------------------------------------------------------------
\* Specifications
\* --------------------------------------------------------------------------

\* find_esc_sheet on the documents of IsDoc
Init == IsDoc(pdf) /\ StartLocator /\ IdleOverlap /\ IdleBBox /\ IdleSeverity /\ IdleMore

Next == NextLocator

Spec == Init /\ [][Next]_vars

\* find_esc_sheet on the sheet-index documents of IsTocDoc
InitToc == IsTocDoc(pdf) /\ StartLocator /\ IdleOverlap /\ IdleBBox /\ IdleSeverity /\ IdleMore

SpecToc == InitToc /\ [][Next]_vars

\* detect_overlapping_labels on lists of at most MaxElems elements
InitOverlap == IdleLocator /\ StartOverlap /\ IdleBBox /\ IdleSeverity /\ IdleMore

NextOverlap == DetectOverlaps

SpecOverlap == InitOverlap /\ [][NextOverlap]_vars

\* intersection and overlap percentage of two boxes on the grid 0..GridMax
InitBBox == IdleLocator /\ IdleOverlap /\ StartBBox /\ IdleSeverity /\ IdleMore

NextBBox == Intersect \/ Percentage

SpecBBox == InitBBox /\ [][NextBBox]_vars

\* classify_overlap_severity on the percentages 0, 1/PctDen, ..., 100
InitSeverity == IdleLocator /\ IdleOverlap /\ IdleBBox /\ StartSeverity /\ IdleMore

NextSeverity == Classify

SpecSeverity == InitSeverity /\ [][NextSeverity]_vars

\* detect_overlapping_labels, then validate_label_proximity, on the same labels
InitProximity == IdleLocator /\ StartProximity /\ IdleBBox /\ IdleSeverity /\ IdleLines /\ IdleLater

NextProximity == DetectOverlaps \/ ValidateProximity

SpecProximity == InitProximity /\ [][NextProximity]_vars

\* detect_contour_lines on one line of at most MaxSamples sample points
InitLines == IdleLocator /\ IdleOverlap /\ IdleBBox /\ IdleSeverity /\ IdleProximity /\ StartLines /\ IdleLater

NextLines == ClassifyLine \/ CollectLine

SpecLines == InitLines /\ [][NextLines]_vars

\* the contour convention check on images of at most MaxLines classified lines
\* and MaxLocations located texts
InitContours == IdleLocator /\ IdleOverlap /\ IdleBBox /\ IdleSeverity /\ IdleProximity
                /\ IdleLines /\ StartContours /\ IdleTail

NextContours == VerifyContoursSmart \/ LineDetectionStep \/ LineDetectionFails

SpecContours == InitContours /\ [][NextContours]_vars


\* --------------------------------------------------------------------------
\* Properties of the Sheet Locator
\* --------------------------------------------------------------------------

\* C1: the metadata lookup runs first, the TOC scan only after the metadata
\* lookup returned no page, the scoring scan only after both returned no page;
\* a page found by the metadata lookup is the result, and then neither the TOC
\* scan nor the scoring scan has been started.
C1_StrategyOrder ==
  /\ calls.metadata <= 1 /\ calls.toc <= 1 /\ calls.scoring <= 1
  /\ pc # "phase0" => calls.metadata = 1
  /\ calls.toc > 0 => calls.metadata = 1 /\ metadata_page = None
  /\ calls.scoring > 0 => calls.toc = 1 /\ metadata_page = None /\ toc_page = None
  /\ LET m == find_esc_in_page_labels(pdf).val IN
       (pc # "phase0" /\ m # None) =>
          /\ pc = "done" /\ result = m /\ metadata_page = m
          /\ calls.toc = 0 /\ calls.scoring = 0

C1_Witness ==
  /\ pc = "done"
  /\ metadata_page # None
  /\ result = metadata_page
  /\ calls = [metadata |-> 1, toc |-> 0, scoring |-> 0]

\* the scores of the pages whose text can be extracted
PageScores(d) ==
  { page_score(Upper(PageText(d.pages[k]))) :
      k \in { j \in 1..Len(d.pages) : d.pages[j].kind # "raise" } }

BestScore(d) ==
  LET ps == PageScores(d) IN
  IF ps = {} THEN 0 ELSE CHOOSE m \in ps : \A x \in ps : x <= m

NoPageRaises(d) == d.readable /\ \A k \in 1..Len(d.pages) : d.pages[k].kind # "raise"

ScanReturned == pc = "done" /\ calls.scoring = 1 /\ ~raised

\* C2: the scoring scan returns a page only if the highest page score is at
\* least 8; below 8 it returns None; a returned page has the maximal score, and
\* with a best score of 8 or more (and every page readable) a page is returned.
C2_ScoreThreshold ==
  ScanReturned =>
    LET best == BestScore(pdf) IN
    /\ result # None =>
         /\ best >= 8
         /\ result[1] \in 0..(Len(pdf.pages) - 1)
         /\ page_score(Upper(PageText(pdf.pages[result[1] + 1]))) = best
    /\ best < 8 => result = None
    /\ (NoPageRaises(pdf) /\ best >= 8) => result # None

C2_Witness == ScanReturned /\ NoPageRaises(pdf) /\ BestScore(pdf) = 8 /\ result # None

C2_WitnessBelow == ScanReturned /\ NoPageRaises(pdf) /\ BestScore(pdf) = 7 /\ result = None


\* the priority the label of a Nums entry gets (0: the label matches no rule)
LabelPriority(e) == IF e.P.kind = "label" THEN sheet_priority(Upper(e.P.text)) ELSE 0

MaxPriority(d) ==
  LET ps == { LabelPriority(d.nums[i]) : i \in 1..Len(d.nums) } \cup {0} IN
  CHOOSE m \in ps : \A x \in ps : x <= m

\* C3: when several labels match, the metadata lookup returns the page of the
\* label with the highest priority, whatever the order of the labels in the
\* table: a "(1 OF N)" label wins over another part of the group listed earlier.
C3_HighestPriorityLabel ==
  (pc # "phase0" /\ pdf.readable /\ pdf.has_nums /\ metadata_page # None) =>
    \E i \in 1..Len(pdf.nums) :
      /\ pdf.nums[i].page_idx = metadata_page[1]
      /\ LabelPriority(pdf.nums[i]) = MaxPriority(pdf)

\* C4: no exception leaves find_esc_sheet; a strategy that raises inside is
\* followed by the next strategy; when all three fail the result is None.
C4_NeverRaises ==
  /\ ~raised
  /\ pc = "done" =>
       /\ LabelsBody(pdf).exc => calls.toc = 1
       /\ (calls.toc = 1 /\ TocBody(pdf).exc) => calls.scoring = 1
       /\ (calls.scoring = 1 /\ ScoreBody(pdf).exc) => result = None
       /\ (LabelsBody(pdf).exc /\ TocBody(pdf).exc /\ ScoreBody(pdf).exc) =>
            /\ calls = [metadata |-> 1, toc |-> 1, scoring |-> 1]
            /\ result = None

C4_Witness ==
  /\ pc = "done"
  /\ LabelsBody(pdf).exc /\ TocBody(pdf).exc /\ ScoreBody(pdf).exc
  /\ calls = [metadata |-> 1, toc |-> 1, scoring |-> 1]
  /\ result = None
  /\ ~raised

\* a readable document whose page raises in the TOC scan still reaches the scoring scan
C4_WitnessPage ==
  /\ pc = "done" /\ pdf.readable /\ TocBody(pdf).exc
  /\ calls.scoring = 1 /\ result = None /\ ~raised

\* the document with every page that raises replaced by a page without text
WithoutErrors(d) ==
  [d EXCEPT !.pages = [k \in 1..Len(d.pages) |->
                         IF d.pages[k].kind = "raise" THEN NonePage ELSE d.pages[k]]]

\* the chain of find_esc_sheet as a function of the document
Locate(d) ==
  LET m == find_esc_in_page_labels(d).val
      t == find_toc_esc_reference(d).val
  IN IF m # None THEN m ELSE IF t # None THEN t ELSE scoring_scan(d).val

\* C5: in the TOC scan and the scoring scan an extraction error on one page is
\* swallowed and the scan goes on: the page selected without the error is
\* still selected when another page raises.
C5_PageErrorsSwallowed ==
  (pc = "done" /\ pdf.readable /\ calls.toc = 1) => result = Locate(WithoutErrors(pdf))

\* C6: every returned page index is the index of a page of the document.
C6_ResultIsPageIndex ==
  (pc = "done" /\ result # None) => result[1] \in 0..(Len(pdf.pages) - 1)


\* the result of the first of the five strategies that matches
FirstMatch(line, next_line) ==
  LET S == << Strategy1(line), Strategy2(line), Strategy3(line), Strategy4(line),
              Strategy5(next_line) >>
      hits == { k \in 1..5 : S[k] # None }
  IN IF hits = {} THEN None ELSE S[CHOOSE k \in hits : \A j \in hits : k <= j]

\* the lines of a page that name the ESC sheet and carry a usable page number
TocHits(lines) ==
  { i \in 1..Len(lines) :
      HasEscKeyword(Upper(lines[i])) /\ Truthy(FirstMatch(lines[i], NextLine(lines, i))) }

TocPagesHit(d) ==
  { k \in 1..Min(10, Len(d.pages)) :
      is_toc(Upper(PageText(d.pages[k]))) /\ TocHits(SplitLines(PageText(d.pages[k]))) # {} }

\* the 0-based page the first such line of the first such page gives
TocExpected(d) ==
  IF TocPagesHit(d) = {} THEN None
  ELSE LET k == CHOOSE x \in TocPagesHit(d) : \A y \in TocPagesHit(d) : x <= y
           lines == SplitLines(PageText(d.pages[k]))
           i == CHOOSE x \in TocHits(lines) : \A y \in TocHits(lines) : x <= y
       IN Some(FirstMatch(lines[i], NextLine(lines, i))[1] - 1)

ExampleTocLine == "EROSION CONTROL PLAN ... 26"

\* a readable one-page document without page labels: a sheet-index heading
\* followed by the entry "EROSION CONTROL PLAN ... 26"
IsExampleDoc(d) ==
  /\ d.readable /\ ~d.has_nums /\ Len(d.pages) = 1 /\ d.pages[1].kind = "text"
  /\ LET lines == SplitLines(d.pages[1].text) IN
       /\ Len(lines) >= 2
       /\ is_toc(Upper(lines[1])) /\ ~HasEscKeyword(Upper(lines[1]))
       /\ lines[2] = ExampleTocLine

\* C7: extract_page_number_from_toc_line returns the result of the first of
\* its five strategies, tried in the fixed order, that matches;
\* find_toc_esc_reference returns that 1-based number minus one, and a document
\* without metadata whose TOC entry is "EROSION CONTROL PLAN ... 26" gives 25.
C7_TocExtraction ==
  /\ \A k \in 1..Len(pdf.pages) :
       LET lines == SplitLines(PageText(pdf.pages[k])) IN
       \A i \in 1..Len(lines) :
         extract_page_number_from_toc_line(lines[i], NextLine(lines, i))
           = FirstMatch(lines[i], NextLine(lines, i))
  /\ (calls.toc = 1 /\ NoPageRaises(pdf)) => toc_page = TocExpected(pdf)
  /\ (pc = "done" /\ IsExampleDoc(pdf)) => result = Some(25)

C7_Witness ==
  /\ pc = "done" /\ IsExampleDoc(pdf)
  /\ calls.metadata = 1 /\ calls.toc = 1
  /\ result = Some(25)


\* --------------------------------------------------------------------------
\* Properties of the Overlap Detector
\* --------------------------------------------------------------------------
OverlapWidth(a, b) == Min(a.x + a.width, b.x + b.width) - Max(a.x, b.x)
OverlapHeight(a, b) == Min(a.y + a.height, b.y + b.height) - Max(a.y, b.y)
PositiveOverlap(a, b) == OverlapWidth(a, b) > 0 /\ OverlapHeight(a, b) > 0
OverlapArea(a, b) == OverlapWidth(a, b) * OverlapHeight(a, b)

Rank(sev) == CASE sev = "critical" -> 3 [] sev = "warning" -> 2 [] sev = "minor" -> 1

\* the tier of num/den percent: above 50 critical, above 20 warning, else minor
Tier(num, den) ==
  IF num > 50 * den THEN "critical" ELSE IF num > 20 * den THEN "warning" ELSE "minor"

PairTier(a, b) == Tier(100 * OverlapArea(a, b), Min(a.width * a.height, b.width * b.height))

\* the pairs of positions i < j of text_elements that the contract reports
QualifyingPairs ==
  { p \in (1..Len(text_elements)) \X (1..Len(text_elements)) :
      /\ p[1] < p[2]
      /\ text_elements[p[1]].confidence >= min_confidence
      /\ text_elements[p[2]].confidence >= min_confidence
      /\ text_elements[p[1]].text # text_elements[p[2]].text
      /\ PositiveOverlap(text_elements[p[1]].bbox, text_elements[p[2]].bbox)
      /\ Rank(PairTier(text_elements[p[1]].bbox, text_elements[p[2]].bbox)) >= Rank(min_severity) }

PairKey(p) ==
  << text_elements[p[1]].text, text_elements[p[2]].text,
     OverlapArea(text_elements[p[1]].bbox, text_elements[p[2]].bbox),
     PairTier(text_elements[p[1]].bbox, text_elements[p[2]].bbox) >>

FindingKey(f) == << f.text1, f.text2, f.overlap_area, f.severity >>

IsExamplePair ==
  /\ Len(text_elements) = 2
  /\ text_elements[1].text = "EX. 635.0"
  /\ text_elements[1].bbox = BoundingBox(100, 100, 50, 20)
  /\ text_elements[2].text = "PROP. 636.0"
  /\ text_elements[2].bbox = BoundingBox(110, 105, 50, 20)
  /\ text_elements[1].confidence >= min_confidence
  /\ text_elements[2].confidence >= min_confidence

\* C8: detect_overlapping_labels returns exactly one finding for every pair of
\* elements that both reach the confidence floor, differ in text, intersect
\* with positive area and reach min_severity, and no other finding; the labels
\* "EX. 635.0" and "PROP. 636.0" of the example give one critical finding.
C8_OneFindingPerPair ==
  ovpc = "returned" =>
    /\ Len(overlaps) = Cardinality(QualifyingPairs)
    /\ \A key \in { PairKey(p) : p \in QualifyingPairs }
                  \cup { FindingKey(overlaps[k]) : k \in 1..Len(overlaps) } :
         Cardinality({ k \in 1..Len(overlaps) : FindingKey(overlaps[k]) = key })
           = Cardinality({ p \in QualifyingPairs : PairKey(p) = key })
    /\ IsExamplePair =>
         /\ Len(overlaps) = 1
         /\ overlaps[1].severity = "critical"
         /\ PctGt(overlaps[1].overlap_percent, 50)

C8_Witness ==
  /\ ovpc = "returned"
  /\ IsExamplePair
  /\ Len(overlaps) = 1
  /\ overlaps[1].severity = "critical"

\* two confident elements with the same text and intersecting boxes are in the input
C8_WitnessSameText ==
  /\ ovpc = "returned"
  /\ overlaps = << >>
  /\ \E i, j \in 1..Len(text_elements) :
       /\ i < j
       /\ text_elements[i].text = text_elements[j].text
       /\ text_elements[i].confidence >= min_confidence
       /\ text_elements[j].confidence >= min_confidence
       /\ PositiveOverlap(text_elements[i].bbox, text_elements[j].bbox)

PctLeq(p, q) == p.num * q.den <= q.num * p.den

\* C9: classify_overlap_severity gives "critical" exactly above 50, "warning"
\* exactly above 20 and up to 50, "minor" otherwise; a higher percentage never
\* gets a lower tier.
C9_SeverityBreakpoints ==
  severity \in Severities =>
    /\ severity = "critical" <=> percent_in.num > 50 * percent_in.den
    /\ severity = "warning" <=> /\ percent_in.num > 20 * percent_in.den
                                /\ percent_in.num <= 50 * percent_in.den
    /\ severity = "minor" <=> percent_in.num <= 20 * percent_in.den
    /\ \A q \in Percents :
         PctLeq(percent_in, q) => Rank(classify_overlap_severity(q)) >= Rank(severity)

C9_Witness == severity = "warning" /\ PctEq(percent_in, 50)

C9_WitnessTwenty == severity = "minor" /\ PctEq(percent_in, 20)

\* a contains b
ContainsBox(a, b) ==
  /\ a.x <= b.x /\ a.y <= b.y
  /\ b.x + b.width <= a.x + a.width
  /\ b.y + b.height <= a.y + a.height

PositiveArea(b) == b.width > 0 /\ b.height > 0

\* C10 as stated: whenever one box fully contains the other, the overlap
\* percent computed from the intersection is 100.
C10_ContainedIs100 ==
  (bbpc = "done" /\ (ContainsBox(bbox1, bbox2) \/ ContainsBox(bbox2, bbox1))) =>
    overlap_percent # None /\ PctEq(overlap_percent[1], 100)

\* C10 amended: when one box fully contains the other and the contained box
\* has positive width and height, the intersection is the contained box and
\* the overlap percent is 100; a contained box of zero area has no
\* intersection and no percent is computed.
C10_ContainedPositiveIs100 ==
  bbpc = "done" =>
    /\ (ContainsBox(bbox1, bbox2) /\ PositiveArea(bbox2)) =>
         /\ intersection = << bbox2 >>
         /\ overlap_percent # None /\ PctEq(overlap_percent[1], 100)
    /\ (ContainsBox(bbox2, bbox1) /\ PositiveArea(bbox1)) =>
         /\ intersection = << bbox1 >>
         /\ overlap_percent # None /\ PctEq(overlap_percent[1], 100)
    /\ (ContainsBox(bbox1, bbox2) /\ ~PositiveArea(bbox2)) =>
         intersection = NoBox /\ overlap_percent = None

C10_Witness ==
  /\ bbpc = "done"
  /\ ContainsBox(bbox1, bbox2) /\ PositiveArea(bbox2) /\ bbox1 # bbox2
  /\ overlap_percent # None /\ PctEq(overlap_percent[1], 100)

\* the two boxes as a pair of confident labels with different texts
PairOfLabels(a, b) == << TextElement("A", a, 85), TextElement("B", b, 85) >>

\* both boxes have positive area and share an edge or a corner only
TouchOnly(a, b) ==
  /\ PositiveArea(a) /\ PositiveArea(b)
  /\ OverlapWidth(a, b) >= 0 /\ OverlapHeight(a, b) >= 0
  /\ ~PositiveOverlap(a, b)

\* C11 as stated: for two boxes with zero intersection area the intersection
\* is absent, the overlap percent is 0, and no finding is emitted for the pair.
C11_ZeroOverlapIsZeroPercent ==
  (bbpc = "done" /\ ~PositiveOverlap(bbox1, bbox2)) =>
    /\ intersection = NoBox
    /\ overlap_percent # None /\ PctEq(overlap_percent[1], 0)
    /\ detect_overlapping_labels(PairOfLabels(bbox1, bbox2),
                                 default_min_confidence, "minor") = << >>

\* C11 amended: for two boxes with zero intersection area (disjoint, or
\* touching along an edge or at a corner) the intersection is absent, no
\* overlap percent is computed for the pair, and no finding is emitted.
C11_ZeroOverlapNoFinding ==
  (bbpc = "done" /\ ~PositiveOverlap(bbox1, bbox2)) =>
    /\ intersection = NoBox
    /\ overlap_percent = None
    /\ detect_overlapping_labels(PairOfLabels(bbox1, bbox2),
                                 default_min_confidence, "minor") = << >>

C11_Witness ==
  /\ bbpc = "done"
  /\ TouchOnly(bbox1, bbox2)
  /\ intersection = NoBox
  /\ overlap_percent = None

\* --------------------------------------------------------------------------
\* Properties of the Proximity Validator
\* --------------------------------------------------------------------------

\* the elements at or above the confidence floor, in input order
Kept == SelectSeq(text_elements, LAMBDA e : e.confidence >= min_confidence)

KeptTexts == { Kept[i].text : i \in 1..Len(Kept) }

\* C12: an element below the confidence floor appears in no overlap finding
\* and in no proximity finding: both results are those of the input without
\* such elements, and every finding names kept elements only; an element whose
\* confidence equals the floor is kept.
C12_BelowFloorIgnored ==
  /\ ovpc = "returned" =>
       /\ overlaps = detect_overlapping_labels(Kept, 0, min_severity)
       /\ \A k \in 1..Len(overlaps) :
            overlaps[k].text1 \in KeptTexts /\ overlaps[k].text2 \in KeptTexts
  /\ pxpc = "returned" =>
       /\ proximity_issues = validate_label_proximity(Kept, features, proximity_rules, 0)
       /\ \A k \in 1..Len(proximity_issues) : proximity_issues[k].label_text \in KeptTexts
       /\ \A i \in 1..Len(text_elements) :
            (/\ text_elements[i].confidence = min_confidence
             /\ text_elements[i].text = "SCE #3"
             /\ "SCE" \notin DOMAIN features) =>
              \E k \in 1..Len(proximity_issues) : proximity_issues[k].label_text = "SCE #3"

\* a label below the floor and a label at the floor share a box; only the
\* label at the floor is reported
C12_Witness ==
  /\ pxpc = "returned"
  /\ Len(text_elements) = 2
  /\ text_elements[1].confidence < min_confidence
  /\ text_elements[2].confidence = min_confidence
  /\ PositiveOverlap(text_elements[1].bbox, text_elements[2].bbox)
  /\ overlaps = << >>
  /\ Len(proximity_issues) = 1
  /\ proximity_issues[1].label_text = text_elements[2].text

\* positions of the kept elements with the text tx, and of the findings about tx
KeptWith(tx) == { i \in 1..Len(Kept) : Kept[i].text = tx }
IssuesFor(tx) == { k \in 1..Len(proximity_issues) : proximity_issues[k].label_text = tx }

\* (2d)^2 for the distance d between the center of the box and the point
CenterSq4(b, pt) ==
  (2 * b.x + b.width - pt[1]) * (2 * b.x + b.width - pt[1])
    + (2 * b.y + b.height - pt[2]) * (2 * b.y + b.height - pt[2])

NearestSq4(b, pts) ==
  LET ds == { CenterSq4(b, pts[j]) : j \in 1..Len(pts) } IN
  CHOOSE m \in ds : \A x \in ds : m <= x

\* the features the map holds for a label type
FeaturesOfType(t) == IF t \in DOMAIN features THEN features[t] ELSE << >>

\* the label is classified, its type has a threshold, and `some` tells whether
\* the feature map holds a feature of the type
ValidatedLabel(e, some) ==
  LET t == classify_label_type(e.text) IN
  /\ t # None
  /\ t[1] \in DOMAIN proximity_rules
  /\ (FeaturesOfType(t[1]) # << >>) = some

\* C13: for a classified label with a feature of its type: no finding when the
\* nearest distance is at most the threshold, a "warning" when it is above the
\* threshold and at most 1.5 times the threshold, an "error" above that; the
\* reported distance is the minimum distance from the box center to the features.
C13_ProximityThresholds ==
  pxpc = "returned" =>
    \A i \in 1..Len(Kept) :
      ValidatedLabel(Kept[i], TRUE) =>
        LET e == Kept[i]
            t == classify_label_type(e.text)[1]
            T == proximity_rules[t]
            m == NearestSq4(e.bbox, features[t])
        IN /\ m <= 4 * T * T => IssuesFor(e.text) = {}
           /\ m > 4 * T * T =>
                /\ Cardinality(IssuesFor(e.text)) = Cardinality(KeptWith(e.text))
                /\ \A k \in IssuesFor(e.text) :
                     /\ proximity_issues[k].nearest_distance = Some(Distance(m))
                     /\ proximity_issues[k].expected_max = T
                     /\ proximity_issues[k].severity =
                          IF m > 9 * T * T THEN "error" ELSE "warning"

\* a label exactly 1.5 times the threshold away from the nearer of two features
C13_Witness ==
  /\ pxpc = "returned"
  /\ "SCE" \in DOMAIN features
  /\ Len(features["SCE"]) = 2
  /\ features["SCE"][1] # features["SCE"][2]
  /\ \E k \in 1..Len(proximity_issues) :
       /\ proximity_issues[k].severity = "warning"
       /\ proximity_issues[k].nearest_distance # None
       /\ proximity_issues[k].nearest_distance[1].sq4
            = 9 * proximity_issues[k].expected_max * proximity_issues[k].expected_max

\* C14: a classified label whose type has a threshold but no feature (key
\* missing or list empty) gets exactly one finding, without a distance, of
\* severity "warning".
C14_NoFeatureIsWarning ==
  pxpc = "returned" =>
    \A i \in 1..Len(Kept) :
      ValidatedLabel(Kept[i], FALSE) =>
        /\ Cardinality(IssuesFor(Kept[i].text)) = Cardinality(KeptWith(Kept[i].text))
        /\ \A k \in IssuesFor(Kept[i].text) :
             /\ proximity_issues[k].nearest_distance = None
             /\ proximity_issues[k].severity = "warning"

\* the feature map holds features of another type only
C14_Witness ==
  /\ pxpc = "returned"
  /\ DOMAIN features = {"CONC WASH"}
  /\ Len(text_elements) = 1
  /\ text_elements[1].text = "SCE #1"
  /\ Len(proximity_issues) = 1
  /\ proximity_issues[1].nearest_distance = None
  /\ proximity_issues[1].severity = "warning"

\* the type key is present with an empty list
C14_WitnessEmptyList ==
  /\ pxpc = "returned"
  /\ "SCE" \in DOMAIN features /\ features["SCE"] = << >>
  /\ \E k \in 1..Len(proximity_issues) : proximity_issues[k].label_type = "SCE"

\* C15: at most one finding per input label, and none for a label that no
\* classification rule matches (as "RANDOM TEXT") or whose type has no entry
\* in the distance table.
C15_AtMostOnePerLabel ==
  pxpc = "returned" =>
    /\ Len(proximity_issues) <= Len(text_elements)
    /\ \A i \in 1..Len(text_elements) :
         LET e == text_elements[i]
             t == classify_label_type(e.text)
         IN /\ Cardinality(IssuesFor(e.text))
                 <= Cardinality({ j \in 1..Len(text_elements) : text_elements[j].text = e.text })
            /\ (t = None \/ t[1] \notin DOMAIN proximity_rules) => IssuesFor(e.text) = {}
            /\ e.text = "RANDOM TEXT" => IssuesFor(e.text) = {}

\* an unclassified label and a label whose type is not in the table, no finding
C15_Witness ==
  /\ pxpc = "returned"
  /\ Len(text_elements) = 2
  /\ classify_label_type(text_elements[1].text) = None
  /\ classify_label_type(text_elements[2].text) = Some("street")
  /\ "street" \notin DOMAIN proximity_rules
  /\ text_elements[1].confidence >= min_confidence
  /\ text_elements[2].confidence >= min_confidence
  /\ proximity_issues = << >>

\* --------------------------------------------------------------------------
\* Properties of the Line Style Classifier
\* --------------------------------------------------------------------------

\* the gap flags of the sample points inside the image
InsideGaps == gaps_of(intensities_of(samples))

InsideCount == Cardinality({ i \in 1..Len(samples) : samples[i].inside })
FilledCount == Cardinality({ i \in 1..Len(InsideGaps) : ~InsideGaps[i] })
Transitions == Cardinality({ i \in 1..(Len(InsideGaps) - 1) : InsideGaps[i] # InsideGaps[i + 1] })

HighCoverage == 10 * FilledCount > 8 * InsideCount
FairCoverage == 10 * FilledCount >= 3 * InsideCount
Classified == lnpc \in {"collect", "done"}

C16_WitnessDashed ==
  /\ lnpc = "done" /\ line_type = "dashed" /\ Len(dashed_lines) = 1 /\ Transitions = 4

\* filled and gap samples alternate in Transitions + 1 segments
Segments == Transitions + 1
NoGap == InsideCount > 0 /\ FilledCount = InsideCount
AboutHalf == 10 * FilledCount >= 4 * InsideCount /\ 10 * FilledCount <= 6 * InsideCount

\* C17 as stated: a sampled line without a gap sample is "solid", and a
\* sampled line of 4 or more alternating filled/gap segments with about 50%
\* coverage is "dashed".
C17_SolidAndDashedBySegments ==
  (Classified /\ InsideCount >= 5) =>
    /\ NoGap => line_type = "solid"
    /\ (Segments >= 4 /\ AboutHalf) => line_type = "dashed"

\* C17 amended: with at least 5 sample points inside the image, a line
\* without a gap sample is "solid" and a line with 4 or more transitions (5 or
\* more alternating segments) and about 50% coverage is "dashed"; a line of
\* exactly 4 alternating segments has 3 transitions and is "unknown" at about
\* 50% coverage; with fewer than 5 points inside the line is "unknown".
C17_SolidAndDashedByTransitions ==
  Classified =>
    /\ (InsideCount >= 5 /\ NoGap) => line_type = "solid"
    /\ (InsideCount >= 5 /\ Segments >= 5 /\ AboutHalf) => line_type = "dashed"
    /\ (InsideCount >= 5 /\ Segments = 4 /\ AboutHalf) => line_type = "unknown"
    /\ InsideCount < 5 => line_type = "unknown"

\* five alternating segments at 60% coverage
C17_Witness ==
  /\ Classified
  /\ InsideCount = 5 /\ Segments = 5 /\ FilledCount = 3
  /\ line_type = "dashed"

C17_WitnessSolid == Classified /\ InsideCount >= 5 /\ NoGap /\ line_type = "solid"

\* --------------------------------------------------------------------------
\* Properties of the Contour Convention Check
\* --------------------------------------------------------------------------
\* the call has returned and its filter ran
Filtered == ccpc \in {"returned", "validated"} /\ kept_indices # None

CheckedLines == AllLines(image_lines)
CheckedLabels == ContourLabels(image_locations)

\* the distance from each contour label k to each line i
LabelToLine ==
  LET lines == CheckedLines
      labels == CheckedLabels
  IN [k \in 1..Len(labels), i \in 1..Len(lines) |->
        point_to_line_distance(<< labels[k].x, labels[k].y >>,
          << lines[i].line[1], lines[i].line[2] >>, << lines[i].line[3], lines[i].line[4] >>)]

Closer(d, e) == d.num * e.den < e.num * d.den

\* the lines within max_distance of at least one contour label
InReach(dist) ==
  { ki[2] : ki \in { ki \in DOMAIN dist : dist[ki].num <= max_dist * dist[ki].den } }

\* the lines that are the nearest line of at least one contour label (the
\* first of all_lines among lines equally near) and within max_distance of it
NearestInReach(dist) ==
  { ki[2] : ki \in { ki \in DOMAIN dist :
      /\ dist[ki].num <= max_dist * dist[ki].den
      /\ \A kj \in DOMAIN dist :
           kj[1] = ki[1] =>
             /\ ~Closer(dist[kj], dist[ki])
             /\ kj[2] < ki[2] => Closer(dist[ki], dist[kj]) } }

\* C18 as stated: after spatial filtering the kept set is exactly the set of
\* classified lines whose distance to at least one contour label is at most
\* max_distance.
C18_KeptIsEveryLineInReach == Filtered => kept_indices[1] = InReach(LabelToLine)

\* C18: after spatial filtering the kept set is exactly the set of classified
\* lines that are the nearest line of at least one contour label (the first of
\* all_lines among equally near ones) and at most max_distance away from that
\* label; a line within max_distance of a label but nearest to none is dropped.
C18_KeptIsNearestInReach == Filtered => kept_indices[1] = NearestInReach(LabelToLine)

\* a line within reach of a contour label is dropped while another is kept
C18_Witness ==
  /\ Filtered
  /\ kept_indices[1] # {}
  /\ InReach(LabelToLine) \ kept_indices[1] # {}

\* the line types among the kept lines
KeptTypes == { CheckedLines[i].type : i \in kept_indices[1] }

ExistingLabelled ==
  \E k \in 1..Len(CheckedLabels) : is_existing_contour_label(CheckedLabels[k].text)

ProposedLabelled ==
  \E k \in 1..Len(CheckedLabels) : is_proposed_contour_label(CheckedLabels[k].text)

\* the line type the convention in force asks of existing contours
ExistingType == IF dashed_convention THEN "dashed" ELSE "solid"

\* a WARNING note about the named kind of contours
Warns(notes, kind) ==
  \E t \in {"solid", "dashed"} :
    Contains(notes, "WARNING: No " \o t \o " contour lines found for " \o kind \o " contours")

\* the errors that validate_esc_sheet holds are warnings, and the run succeeded
OnlyWarned ==
  ccpc = "validated" =>
    /\ success = Some(TRUE)
    /\ \A i \in 1..Len(errors) : SubSeq(errors[i], 1, 8) = "WARNING:"

\* C19: in the convention check on the kept lines, an existing-contour label
\* requires a kept dashed line under the default convention and a kept solid
\* line under the inverted one, a proposed-contour label requires a kept solid
\* line; each unmet requirement sets its flag to false with a WARNING note,
\* and validate_esc_sheet only records warnings and still succeeds.
C19_ConventionRequirements ==
  Filtered =>
    LET lv == line_verification[1] IN
    /\ (ExistingLabelled /\ ExistingType \notin KeptTypes)
         => ~lv.existing_correct /\ Warns(lv.notes, "existing")
    /\ (ProposedLabelled /\ "solid" \notin KeptTypes)
         => ~lv.proposed_correct /\ Warns(lv.notes, "proposed")
    /\ OnlyWarned

\* the call has returned, filtering was asked for, and no located text of the
\* image is a contour label
NoLabelFound ==
  /\ ccpc \in {"returned", "validated"}
  /\ line_verification # None
  /\ spatial_filtering
  /\ \A i \in 1..Len(image_locations) : ~is_contour_label(image_locations[i].text)

\* the page text names existing (proposed) contours: the keyword is part of
\* the text, or one of its words is at least 80% similar to it
TextNames(kws) ==
  LET text_lower == Lower(image_text)
      words == SplitWords(text_lower)
  IN \E i \in 1..Len(kws) :
       \/ Contains(text_lower, kws[i])
       \/ \E j \in 1..Len(words) :
            10 * 2 * LcsLen(words[j], kws[i]) >= 8 * (Len(words[j]) + Len(kws[i]))

LineTypes == { image_lines[i].type : i \in 1..Len(image_lines) }

\* No line is filtered out, the flags are those of the convention check on
\* all classified lines (which fails both when there is no line at all), and
\* the result says that no contour label was found.
FallbackResult ==
  LET lv == line_verification[1] IN
  /\ lv.total_lines_detected = Len(image_lines)
  /\ lv.contour_lines_identified = lv.total_lines_detected
  /\ lv.filter_effectiveness.num = 0
  /\ kept_indices = None
  /\ dashed_convention =>
       lv.existing_correct =
         /\ image_lines # << >>
         /\ ~(TextNames(<< "existing", "exist", "ex" >>) /\ "dashed" \notin LineTypes)
  /\ lv.proposed_correct =
       /\ image_lines # << >>
       /\ ~(TextNames(<< "proposed", "prop", "future" >>) /\ "solid" \notin LineTypes)
  /\ lv.contour_labels_found = 0
  /\ Contains(lv.notes, "No contour labels found for filtering")

AnySizeBoxes ==
  { BoundingBox(1, 0, w, h) : w \in (-GridMax)..GridMax, h \in (-GridMax)..GridMax }

StartAnySize ==
  /\ bbox1 \in AnySizeBoxes
  /\ bbox2 \in Boxes
  /\ intersection = NoBox
  /\ overlap_percent = None
  /\ bbpc = "intersect"

\* one pair of boxes, the first of any size
InitAnySize == IdleLocator /\ IdleOverlap /\ StartAnySize /\ IdleSeverity /\ IdleMore

SpecAnySize == InitAnySize /\ [][NextBBox]_vars

Malformed(bbox) == bbox.width < 0 \/ bbox.height < 0

\* C21: a rectangle with negative width or height is rejected when it is
\* constructed or first used: no intersection or overlap-percent computation
\* on such a rectangle runs to its end.
C21_MalformedBoxRejected ==
  bbpc = "done" => ~Malformed(bbox1) /\ ~Malformed(bbox2)

\* --------------------------------------------------------------------------
\* The OCR cache (ocr_engine.py) and its life in validate_esc_sheet
\* --------------------------------------------------------------------------
MaxCalls == 3

CacheCall(op, arg, ret, after) == [op |-> op, arg |-> arg, ret |-> ret, after |-> after]

StartCache ==
  /\ ocr_cache = None
  /\ cache_calls = << >>
  /\ vpc = "idle"
  /\ pdf_exists = FALSE
  /\ exit_path = "none"
  /\ populated = FALSE

\* set_ocr_cache(results)
SetCache ==
  /\ vpc = "idle"
  /\ Len(cache_calls) < MaxCalls
  /\ \E results \in ResultLists :
       /\ ocr_cache' = set_ocr_cache(ocr_cache, results)
       /\ cache_calls' = Append(cache_calls, CacheCall("set", results, None, ocr_cache'))
  /\ UNCHANGED <<vpc, pdf_exists, exit_path, populated,
                 locVars, ovVars, bbVars, sevVars, pxVars, lnVars, ccVars>>

\* get_ocr_cache()
GetCache ==
  /\ vpc = "idle"
  /\ Len(cache_calls) < MaxCalls
  /\ cache_calls' = Append(cache_calls,
                           CacheCall("get", << >>, get_ocr_cache(ocr_cache), ocr_cache))
  /\ UNCHANGED <<ocr_cache, vpc, pdf_exists, exit_path, populated,
                 locVars, ovVars, bbVars, sevVars, pxVars, lnVars, ccVars>>

\* clear_ocr_cache()
ClearCache ==
  /\ vpc = "idle"
  /\ Len(cache_calls) < MaxCalls
  /\ ocr_cache' = clear_ocr_cache(ocr_cache)
  /\ cache_calls' = Append(cache_calls, CacheCall("clear", << >>, None, ocr_cache'))
  /\ UNCHANGED <<vpc, pdf_exists, exit_path, populated,
                 locVars, ovVars, bbVars, sevVars, pxVars, lnVars, ccVars>>

InitCache == IdleLocator /\ IdleOverlap /\ IdleBBox /\ IdleSeverity /\ IdleProximity
             /\ IdleLines /\ IdleContours /\ StartCache

NextCache == SetCache \/ GetCache \/ ClearCache

SpecCache == InitCache /\ [][NextCache]_vars

\* validate_esc_sheet is entered with whatever an earlier user of the module
\* left in the cache
StartValidate ==
  /\ ocr_cache \in CacheValues
  /\ cache_calls = << >>
  /\ vpc = "start"
  /\ pdf_exists \in BOOLEAN
  /\ exit_path = "none"
  /\ populated = FALSE

\* the steps inside the try block, in order; "result" builds and returns the
\* result dictionary
StepOrder == << "extract", "labels", "quantities", "sheet_type", "lines", "quality",
               "summary", "result" >>

StepAfter(step) == StepOrder[(CHOOSE i \in 1..Len(StepOrder) : StepOrder[i] = step) + 1]

\* Steps 5 and 6 run inside their own try/except, which records the error
GuardedSteps == { "lines", "quality" }

\* Steps 2, 3, 4 and the summary: an exception leaves the try block
PlainSteps == { "labels", "quantities", "sheet_type", "summary" }

\* what a step may do to the cache: nothing, or an OCR run populates it
CacheAfterStep(cache) == { cache } \cup { set_ocr_cache(cache, r) : r \in ResultLists }

\* "clear_ocr_cache()" before anything else
ClearAtStart ==
  /\ vpc = "start"
  /\ ocr_cache' = clear_ocr_cache(ocr_cache)
  /\ vpc' = "inputs"
  /\ UNCHANGED <<cache_calls, pdf_exists, exit_path, populated,
                 locVars, ovVars, bbVars, sevVars, pxVars, lnVars, ccVars>>

\* "if not Path(pdf_path).exists(): ... return {...}", before the try block
MissingFile ==
  /\ vpc = "inputs"
  /\ ~pdf_exists
  /\ vpc' = "returned"
  /\ exit_path' = "missing_file"
  /\ UNCHANGED <<ocr_cache, cache_calls, pdf_exists, populated,
                 locVars, ovVars, bbVars, sevVars, pxVars, lnVars, ccVars>>

\* the file exists: the try block is entered
EnterTry ==
  /\ vpc = "inputs"
  /\ pdf_exists
  /\ vpc' = "extract"
  /\ UNCHANGED <<ocr_cache, cache_calls, pdf_exists, exit_path, populated,
                 locVars, ovVars, bbVars, sevVars, pxVars, lnVars, ccVars>>

\* Step 1, extract_esc_sheet: it finds the sheet, returns no image (the early
\* return inside the try block) or raises
ExtractSheet ==
  /\ vpc = "extract"
  /\ \E outcome \in { "found", "failed", "raises" }, cache \in CacheAfterStep(ocr_cache) :
       /\ ocr_cache' = cache
       /\ populated' = (populated \/ cache # ocr_cache)
       /\ vpc' = IF outcome = "found" THEN StepAfter("extract") ELSE "finally"
       /\ exit_path' = CASE outcome = "found" -> exit_path
                         [] outcome = "failed" -> "failed_extraction"
                         [] OTHER -> "exception"
  /\ UNCHANGED <<cache_calls, pdf_exists,
                 locVars, ovVars, bbVars, sevVars, pxVars, lnVars, ccVars>>

\* a step whose exception leaves the try block
RunStep ==
  /\ vpc \in PlainSteps
  /\ \E raises \in BOOLEAN, cache \in CacheAfterStep(ocr_cache) :
       /\ ocr_cache' = cache
       /\ populated' = (populated \/ cache # ocr_cache)
       /\ vpc' = IF raises THEN "finally" ELSE StepAfter(vpc)
       /\ exit_path' = IF raises THEN "exception" ELSE exit_path
  /\ UNCHANGED <<cache_calls, pdf_exists,
                 locVars, ovVars, bbVars, sevVars, pxVars, lnVars, ccVars>>

\* a step whose exception is caught and recorded: the run goes on either way
RunGuardedStep ==
  /\ vpc \in GuardedSteps
  /\ \E cache \in CacheAfterStep(ocr_cache) :
       /\ ocr_cache' = cache
       /\ populated' = (populated \/ cache # ocr_cache)
  /\ vpc' = StepAfter(vpc)
  /\ UNCHANGED <<cache_calls, pdf_exists, exit_path,
                 locVars, ovVars, bbVars, sevVars, pxVars, lnVars, ccVars>>

\* "return result"
ReturnResult ==
  /\ vpc = "result"
  /\ vpc' = "finally"
  /\ exit_path' = "completed"
  /\ UNCHANGED <<ocr_cache, cache_calls, pdf_exists, populated,
                 locVars, ovVars, bbVars, sevVars, pxVars, lnVars, ccVars>>

\* "finally: clear_ocr_cache()", then the pending return or exception goes on
Finally ==
  /\ vpc = "finally"
  /\ ocr_cache' = clear_ocr_cache(ocr_cache)
  /\ vpc' = IF exit_path = "exception" THEN "raised" ELSE "returned"
  /\ UNCHANGED <<cache_calls, pdf_exists, exit_path, populated,
                 locVars, ovVars, bbVars, sevVars, pxVars, lnVars, ccVars>>

InitValidate == IdleLocator /\ IdleOverlap /\ IdleBBox /\ IdleSeverity /\ IdleProximity
                /\ IdleLines /\ IdleContours /\ StartValidate

NextValidate ==
  \/ ClearAtStart
  \/ MissingFile
  \/ EnterTry
  \/ ExtractSheet
  \/ RunStep
  \/ RunGuardedStep
  \/ ReturnResult
  \/ Finally

SpecValidate == InitValidate /\ [][NextValidate]_vars

\* C22: validate_esc_sheet has cleared the cache once its first statement is
\* done, and the cache is None whenever it has returned or raised, by each
\* way out (missing file, failed extraction, completion, exception)
C22_CacheClearedOnEveryExit ==
  vpc \in { "inputs", "returned", "raised" } => ocr_cache = None

\* a run that started with a stale cache, populated it and left by an exception
C22_Witness ==
  /\ vpc = "raised"
  /\ exit_path = "exception"
  /\ populated
  /\ ocr_cache = None

\* what the calls made so far should have left to be read: the list of the
\* latest set_ocr_cache unless a clear_ocr_cache came after it, else None
RECURSIVE LatestSet(_)
LatestSet(history) ==
  IF history = << >> THEN None
  ELSE LET last == history[Len(history)]
       IN CASE last.op = "set" -> Some(last.arg)
            [] last.op = "clear" -> None
            [] OTHER -> LatestSet(SubSeq(history, 1, Len(history) - 1))

CacheBefore(i) == IF i = 1 THEN None ELSE cache_calls[i - 1].after

\* C29: every get_ocr_cache returns the list of the latest set_ocr_cache not
\* followed by a clear_ocr_cache, else None (an empty list comes back as an
\* empty list); get_ocr_cache leaves the cache as it was, and a
\* clear_ocr_cache straight after a clear_ocr_cache changes nothing
C29_CacheSemantics ==
  \A i \in 1..Len(cache_calls) :
    LET call == cache_calls[i]
    IN /\ call.op = "get" =>
            /\ call.ret = LatestSet(SubSeq(cache_calls, 1, i - 1))
            /\ call.after = CacheBefore(i)
       /\ (call.op = "clear" /\ i > 1 /\ cache_calls[i - 1].op = "clear") =>
            /\ call.after = CacheBefore(i)
            /\ call.after = None

\* an empty list was cached, read back as an empty list, and then cleared
C29_Witness ==
  /\ Len(cache_calls) = 3
  /\ cache_calls[1].op = "set" /\ cache_calls[1].arg = << >>
  /\ cache_calls[2].op = "get" /\ cache_calls[2].ret = Some(<< >>)
  /\ cache_calls[3].op = "clear"
  /\ ocr_cache = None

\* --------------------------------------------------------------------------
\* Frame of the two quality checks
\* --------------------------------------------------------------------------
OverlapCallReturns == ovpc = "call" /\ ovpc' = "returned"

ProximityCallReturns == pxpc = "call" /\ pxpc' = "returned"

extract_text_with_bboxes(data, floor) ==
  SelectSeq(data, LAMBDA row : /\ row.text # ""
                               /\ row.confidence >= floor
                               /\ row.bbox.width >= 5
                               /\ row.bbox.height >= 5)

QualityCheckResults(overlapping_labels, issues) ==
  [overlapping_labels |-> overlapping_labels, proximity_issues |-> issues]

\* "if features:" for the optional argument: a variant that takes every
\* argument as given
FeaturesGiven_Always(features_arg) == TRUE

FeaturesGiven(features_arg) == features_arg # None /\ features_arg[1] # << >>

FeaturesIn(features_arg) == IF features_arg = None THEN << >> ELSE features_arg[1]

\* check_quality(image, features), with the fields of the QualityChecker
check_quality(data, features_arg, rules, min_text_confidence, min_overlap_severity) ==
  LET elems == extract_text_with_bboxes(data, min_text_confidence) IN
  IF elems = << >> THEN QualityCheckResults(<< >>, << >>)
  ELSE QualityCheckResults(
         detect_overlapping_labels(elems, min_text_confidence, min_overlap_severity),
         IF FeaturesGiven(features_arg)
         THEN validate_label_proximity(elems, FeaturesIn(features_arg), rules,
                                       min_text_confidence)
         ELSE << >>)

\* the properties of QualityCheckResults that Step 6 reads
critical_overlaps(results) ==
  Len(SelectSeq(results.overlapping_labels, LAMBDA issue : issue.severity = "critical"))

proximity_errors(results) ==
  Len(SelectSeq(results.proximity_issues, LAMBDA issue : issue.severity = "error"))

\* the rows of an OCR run: the labels of the proximity tests, a row without
\* text and a row whose box is too narrow
QualityRows ==
  ProxElemCatalog
    \cup { TextElement("", BoundingBox(100, 100, 50, 20), 85),
           TextElement("SCE", BoundingBox(100, 100, 4, 20), 85) }

StartQuality ==
  /\ \E n \in 0..MaxProxElems : text_elements \in [1..n -> QualityRows]
  /\ min_confidence \in { default_min_confidence, 85 }
  /\ min_severity = "minor"
  /\ overlaps = << >>
  /\ ovpc = "check"
  /\ features \in FeatureMaps
  /\ proximity_rules \in RuleTables
  /\ proximity_issues = << >>
  /\ pxpc = "check"

\* a call of check_quality: with the feature map, or without the argument
\* (features=None)
CheckQuality ==
  /\ pxpc = "check"
  /\ \E passed \in BOOLEAN :
       LET results == check_quality(text_elements, IF passed THEN Some(features) ELSE None,
                                    proximity_rules, min_confidence, min_severity)
       IN /\ overlaps' = results.overlapping_labels
          /\ proximity_issues' = results.proximity_issues
          /\ pxpc' = IF passed THEN "checked" ELSE "checked_none"
  /\ text_elements' = extract_text_with_bboxes(text_elements, min_confidence)
  /\ ovpc' = "checked"
  /\ UNCHANGED <<min_confidence, min_severity, features, proximity_rules,
                 locVars, bbVars, sevVars, lnVars, ccVars, tailVars>>

\* the warnings Step 6 adds to errors (the counts are left out of the text)
QualityWarnings(results) ==
  (IF critical_overlaps(results) > 0
   THEN << "WARNING: critical overlapping labels found" >> ELSE << >>)
  \o (IF proximity_errors(results) > 0
      THEN << "WARNING: spatial placement errors found" >> ELSE << >>)

\* Step 6 of validate_esc_sheet: QualityChecker(min_text_confidence=40.0,
\* min_overlap_severity="minor"), check_quality(image, features=None)
QualityStep ==
  /\ pxpc = "check"
  /\ LET results == check_quality(text_elements, None, PROXIMITY_RULES,
                                  default_min_confidence, "minor")
     IN /\ overlaps' = results.overlapping_labels
        /\ proximity_issues' = results.proximity_issues
        /\ errors' = errors \o QualityWarnings(results)
  /\ text_elements' = extract_text_with_bboxes(text_elements, default_min_confidence)
  /\ min_confidence' = default_min_confidence
  /\ min_severity' = "minor"
  /\ proximity_rules' = PROXIMITY_RULES
  /\ ovpc' = "checked"
  /\ pxpc' = "validated"
  /\ UNCHANGED <<features, image_lines, image_locations, image_text, max_dist,
                 spatial_filtering, dashed_convention, line_verification, kept_indices,
                 success, ccpc, locVars, bbVars, sevVars, lnVars, tailVars>>

InitQuality == IdleLocator /\ StartQuality /\ IdleBBox /\ IdleSeverity /\ IdleLines /\ IdleLater

NextQuality == CheckQuality \/ QualityStep

SpecQuality == InitQuality /\ [][NextQuality]_vars

\* the call ran without a usable feature map: none passed, or an empty one
WithoutFeatures == pxpc \in { "checked_none", "validated" } \/ (pxpc = "checked" /\ features = << >>)

\* a label that validate_label_proximity would look up a feature for
ClassifiedLabel(elem) ==
  /\ classify_label_type(elem.text) # None
  /\ classify_label_type(elem.text)[1] \in DOMAIN proximity_rules

\* C30: check_quality without a feature map (None or empty) reports no
\* proximity issue, whatever classified labels the sheet holds
C30_NoFeaturesNoProximityIssues ==
  WithoutFeatures => proximity_issues = << >>

\* Step 6 ran on a sheet with a classified label; no issue is reported for it
C30_Witness ==
  /\ pxpc = "validated"
  /\ \E i \in 1..Len(text_elements) : ClassifiedLabel(text_elements[i])
  /\ proximity_issues = << >>

\* the same label gets its "no feature" warning once a map without its type is passed
C30_WarnedWithOtherMap ==
  /\ pxpc = "checked"
  /\ features # << >>
  /\ \E i \in 1..Len(proximity_issues) : proximity_issues[i].nearest_distance = None

\* --------------------------------------------------------------------------
\* find_esc_sheet on documents that only the scoring scan can settle
\* --------------------------------------------------------------------------
\* page texts without a sheet index, covering each rule of the scan
ScanPageCatalog ==
  { TextPage("EROSION AND SEDIMENT CONTROL PLAN"),
    TextPage("Erosion Control Notes"),
    TextPage("SILT FENCE AND WASHOUT\nEROSION CONTROL"),
    TextPage("ESC-1 SWPPP WASHOUT"),
    TextPage("EROSION AND SEDIMENT CONTROL\nEROSION CONTROL NOTES"),
    TextPage("SEDIMENT CONTROL BMP"),
    TextPage("ESC PLAN NOTES\nCONSTRUCTION ENTRANCE"),
    NonePage,
    RaisePage }

\* d is a document without page labels of 1..MaxPages pages of ScanPageCatalog
IsScanDoc(d) ==
  \E n \in 1..MaxPages : \E pages \in [1..n -> ScanPageCatalog] : d = MkDoc(<< >>, pages)

InitScan == IsScanDoc(pdf) /\ StartLocator /\ IdleOverlap /\ IdleBBox /\ IdleSeverity /\ IdleMore

SpecScan == InitScan /\ [][Next]_vars

ScoreOfPage(k) == page_score(Upper(PageText(pdf.pages[k])))

\* C24: when several pages share the highest score and it is at least 8, the
\* scoring scan returns the one with the smallest index
C24_FirstOfTiedPages ==
  (ScanReturned /\ result # None) =>
    \A k \in 1..Len(pdf.pages) :
      ScoreOfPage(k) = BestScore(pdf) => result[1] <= k - 1

\* two pages with different texts tie at the best score; the first is returned
C24_Witness ==
  /\ ScanReturned
  /\ Len(pdf.pages) = 2
  /\ pdf.pages[1] # pdf.pages[2]
  /\ ScoreOfPage(1) = ScoreOfPage(2)
  /\ ScoreOfPage(1) >= 8
  /\ result = Some(0)

\* the rule table the score is stated by: the points of each rule and the
\* condition under which it fires on the upper-cased page text
ScoreRules ==
  << [points |-> 5, rule |-> "ESC+PLAN"],
     [points |-> 5, rule |-> "EROSION AND SEDIMENT CONTROL PLAN"],
     [points |-> 5, rule |-> "sheet number"],
     [points |-> 5, rule |-> "ESC+NOTES"],
     [points |-> 5, rule |-> "control notes"],
     [points |-> 3, rule |-> "EROSION CONTROL"],
     [points |-> 3, rule |-> "SEDIMENT CONTROL"],
     [points |-> 2, rule |-> "SILT FENCE"],
     [points |-> 2, rule |-> "CONSTRUCTION ENTRANCE"],
     [points |-> 2, rule |-> "WASHOUT"],
     [points |-> 2, rule |-> "SWPPP"],
     [points |-> 2, rule |-> "BMP"],
     [points |-> 1, rule |-> "EROSION"],
     [points |-> 1, rule |-> "SEDIMENT"] >>

Combined(t) == Contains(t, "EROSION AND SEDIMENT CONTROL")

Fires(rule, t) ==
  CASE rule = "ESC+PLAN" -> Contains(t, "ESC") /\ Contains(t, "PLAN")
    [] rule = "sheet number" -> HasSheetNumber(t)
    [] rule = "ESC+NOTES" -> Contains(t, "ESC") /\ Contains(t, "NOTES")
    [] rule = "control notes" -> HasControlNotes(t)
    [] rule = "EROSION CONTROL" -> Contains(t, "EROSION CONTROL") /\ ~Combined(t)
    [] rule = "SEDIMENT CONTROL" -> Contains(t, "SEDIMENT CONTROL") /\ ~Combined(t)
    [] rule = "BMP" -> Contains(t, "BMP") /\ (Contains(t, "EROSION") \/ Contains(t, "SEDIMENT"))
    [] OTHER -> Contains(t, rule)

RulesWorth(n) == { i \in 1..Len(ScoreRules) : ScoreRules[i].points = n }

\* the points of the rules from the i-th on that fire on t, the rules named
\* in skipped left aside
RECURSIVE SumOfFired(_, _, _)
SumOfFired(t, i, skipped) ==
  IF i > Len(ScoreRules) THEN 0
  ELSE (IF ScoreRules[i].rule \notin skipped /\ Fires(ScoreRules[i].rule, t)
        THEN ScoreRules[i].points ELSE 0)
       + SumOfFired(t, i + 1, skipped)

UpperText(k) == Upper(PageText(pdf.pages[k]))

\* C26: the score of a page is the sum of the points of the rules that fire on
\* its text, of five 5-point, two 3-point, five 2-point and two 1-point rules;
\* the two 3-point rules add nothing on a page that contains "EROSION AND
\* SEDIMENT CONTROL"; the page "EROSION AND SEDIMENT CONTROL PLAN" scores 7
C26_ScoreIsSumOfRules ==
  /\ Cardinality(RulesWorth(5)) = 5 /\ Cardinality(RulesWorth(3)) = 2
  /\ Cardinality(RulesWorth(2)) = 5 /\ Cardinality(RulesWorth(1)) = 2
  /\ ScanReturned =>
       \A k \in 1..Len(pdf.pages) :
         /\ ScoreOfPage(k) = SumOfFired(UpperText(k), 1, {})
         /\ Combined(UpperText(k)) =>
              ScoreOfPage(k) = SumOfFired(UpperText(k), 1, {"EROSION CONTROL", "SEDIMENT CONTROL"})
         /\ UpperText(k) = "EROSION AND SEDIMENT CONTROL PLAN" => ScoreOfPage(k) = 7

\* the scan ran over the plan page (7 points) and over a page that names both
\* phrases, the combined one and "EROSION CONTROL"
C26_Witness ==
  /\ ScanReturned
  /\ Len(pdf.pages) = 2
  /\ UpperText(1) = "EROSION AND SEDIMENT CONTROL PLAN"
  /\ ScoreOfPage(1) = 7
  /\ Combined(UpperText(2)) /\ Contains(UpperText(2), "EROSION CONTROL NOTES")
  /\ result = None

\* the entry line of a sheet-index document of IsTocDoc
TocEntryLine(d) == SplitLines(PageText(d.pages[1]))[2]

\* the line ends in a page range: the pattern of Strategy 2 matches it
EndsInRange(line) == Strategy2(line) # None

\* C25: for a TOC line that ends in a page range such as "26-28" the first
\* page of the range is the page number taken from the line (26, hence the
\* page index 25)
C25_RangeGivesFirstPage ==
  (pc = "done" /\ calls.toc = 1 /\ EndsInRange(TocEntryLine(pdf))) =>
    /\ extract_page_number_from_toc_line(TocEntryLine(pdf), "") = Strategy2(TocEntryLine(pdf))
    /\ toc_page = Some(Strategy2(TocEntryLine(pdf))[1] - 1)

\* what the code does with the range line: the last page of the range
C25_RangeGivesLastPage ==
  /\ pc = "done"
  /\ TocEntryLine(pdf) = "EROSION CONTROL 26-28"
  /\ Strategy2(TocEntryLine(pdf)) = Some(26)
  /\ toc_page = Some(27)
  /\ result = Some(27)

ContoursReturned == ccpc \in {"returned", "validated"} /\ line_verification # None

\* C27: in every result filter_effectiveness lies between 0 and 1,
\* contour_lines_identified does not exceed total_lines_detected, the value is
\* 1 - contour_lines_identified / total_lines_detected when the filter ran,
\* and it is 0 when filtering is disabled, no contour label is found or no
\* line is detected
C27_FilterEffectiveness ==
  ContoursReturned =>
    LET lv == line_verification[1]
        fe == lv.filter_effectiveness
        total == lv.total_lines_detected
        kept == lv.contour_lines_identified
    IN /\ total = Len(CheckedLines)
       /\ kept <= total
       /\ fe.den > 0 /\ 0 <= fe.num /\ fe.num <= fe.den
       /\ Filtered =>
            /\ kept = Cardinality(kept_indices[1])
            /\ fe.num * total = (total - kept) * fe.den
       /\ (~spatial_filtering \/ CheckedLabels = << >> \/ CheckedLines = << >>) => fe.num = 0

\* the filter kept one of two lines: filter_effectiveness is one half
C27_Witness ==
  /\ Filtered
  /\ line_verification[1].total_lines_detected = 2
  /\ line_verification[1].contour_lines_identified = 1
  /\ line_verification[1].filter_effectiveness = Ratio(1, 2)

\* C28: existing_correct is false only when an existing-contour label is
\* present and proposed_correct is false only when a proposed-contour label is
\* present; a sheet without such a label gets no convention violation,
\* whatever lines are detected
C28_ViolationNeedsLabel ==
  ContoursReturned =>
    LET lv == line_verification[1] IN
    /\ ~lv.existing_correct => ExistingLabelled
    /\ ~lv.proposed_correct => ProposedLabelled

\* Step 5 of validate_esc_sheet on an image without lines and without located
\* text: both flags are false and both warnings are recorded
C28_WarnedWithoutLabels ==
  /\ ccpc = "validated"
  /\ image_lines = << >>
  /\ image_locations = << >>
  /\ ~line_verification[1].existing_correct
  /\ ~line_verification[1].proposed_correct
  /\ Len(errors) = 2


====
